---- MODULE Spec2Model ----
(***************************************************************************)
(* A model of the DTCG design-token validator (src/src/lib/dtcgValidator.js)*)
(*                                                                         *)
(* JavaScript values are tagged records; strings are sequences of          *)
(* one-character strings, so that the regular expressions, the path        *)
(* concatenation and the reference syntax are computed character by        *)
(* character.  Numbers are fixed-point, counted in thousandths.            *)
(* A message is the template literal that builds it together with the      *)
(* values interpolated into it, in order.                                  *)
(***************************************************************************)
EXTENDS FiniteSets, Integers, Sequences, TLC

VARIABLES
    pc,          \* "call": the call of `input` is about to run; "done": it returned
    calls,       \* the number of calls submitted so far
    input,       \* the last call: which entry point, and its argument
    tokens,      \* local `tokens` of the last call (Undefined when not reached)
    registry,    \* local `registry` of the last call (Undefined when not built)
    errors,      \* local `errors` array of the last call
    warnings,    \* local `warnings` array of the last call
    producedAt,  \* history: for each error / warning, the node (keys from the
                 \* root, path) whose loop iteration pushed it
    steps,       \* history: the calls the entry point made, in order
    result,      \* the value the last call returned
    saved,       \* history: an earlier call and its result, kept for comparison
    curReferencePath,  \* parameter `referencePath` of the running invocation of
                    \* resolveReference
    curVisitedPaths,   \* its parameter `visitedPaths`
    invocations,    \* history: the invocations of resolveReference made by one
                    \* top-level call, the running one included
    resolution        \* the value the top-level call of resolveReference returned

vars == <<pc, calls, input, tokens, registry, errors, warnings, producedAt, steps, result, saved,
          curReferencePath, curVisitedPaths, invocations, resolution>>

-----------------------------------------------------------------------------
(* JavaScript values *)

Undefined == [k |-> "undefined"]
Null == [k |-> "null"]
Bool(b) == [k |-> "boolean", b |-> b]
Num(n) == [k |-> "number", n |-> n]
Str(s) == [k |-> "string", s |-> s]
Arr(items) == [k |-> "array", items |-> items]
\* an ordinary object: its own properties <<key, value>> in creation order
Obj(ents) == [k |-> "object", ents |-> ents]
\* a string handed to JSON.parse, given by what it writes down rather than by its
\* characters: nothing, something that is no JSON text (with the message of the
\* SyntaxError it raises), or a JSON value; `padded` tells whether white space
\* surrounds it
Text(padded, body) == [k |-> "text", padded |-> padded, body |-> body]
EmptyBody == [b |-> "empty"]
MalformedBody(message) == [b |-> "malformed", message |-> message]
JSONBody(value) == [b |-> "json", writes |-> value]

typeof(v) ==
    CASE v.k = "undefined" -> "undefined"
      [] v.k = "boolean" -> "boolean"
      [] v.k = "number" -> "number"
      [] v.k = "string" -> "string"
      [] v.k = "text" -> "string"
      [] OTHER -> "object"

isArray(v) == v.k = "array"

\* ToBoolean
Truthy(v) ==
    CASE v.k = "undefined" -> FALSE
      [] v.k = "null" -> FALSE
      [] v.k = "boolean" -> v.b
      [] v.k = "number" -> v.n # 0
      [] v.k = "string" -> v.s # <<>>
      [] v.k = "text" -> v.padded \/ v.body.b # "empty"
      [] OTHER -> TRUE

\* a || b
Or(a, b) == IF Truthy(a) THEN a ELSE b

Digits == <<"0", "1", "2", "3", "4", "5", "6", "7", "8", "9">>

IsDigit(c) == \E i \in 1..Len(Digits) : Digits[i] = c

DigitValue(c) == (CHOOSE i \in 1..Len(Digits) : Digits[i] = c) - 1

RECURSIVE NatToString(_)
NatToString(n) ==
    IF n < 10 THEN <<Digits[n + 1]>>
    ELSE NatToString(n \div 10) \o <<Digits[(n % 10) + 1]>>

\* s < t for two canonical numeric strings (shorter is smaller, else lexicographic)
RECURSIVE DigitsLess(_, _)
DigitsLess(s, t) ==
    IF Len(s) # Len(t) THEN Len(s) < Len(t)
    ELSE IF s = <<>> THEN FALSE
    ELSE IF s[1] # t[1] THEN DigitValue(s[1]) < DigitValue(t[1])
    ELSE DigitsLess(Tail(s), Tail(t))

MaxArrayIndex == <<"4", "2", "9", "4", "9", "6", "7", "2", "9", "4">>

\* an array index: the canonical decimal string of an integer in 0 .. 2^32 - 2
IsArrayIndex(key) ==
    /\ key # <<>>
    /\ \A i \in 1..Len(key) : IsDigit(key[i])
    /\ (Len(key) > 1 => key[1] # "0")
    /\ ~DigitsLess(MaxArrayIndex, key)

\* the own properties of an object whose key satisfies / does not satisfy IsArrayIndex
IndexEntries(ents) == SelectSeq(ents, LAMBDA e : IsArrayIndex(e[1]))

StringEntries(ents) == SelectSeq(ents, LAMBDA e : ~IsArrayIndex(e[1]))

RECURSIVE InsertByIndex(_, _)
InsertByIndex(e, sorted) ==
    IF sorted = <<>> THEN <<e>>
    ELSE IF DigitsLess(e[1], sorted[1][1]) THEN <<e>> \o sorted
    ELSE <<sorted[1]>> \o InsertByIndex(e, Tail(sorted))

RECURSIVE SortByIndex(_)
SortByIndex(ents) ==
    IF ents = <<>> THEN <<>>
    ELSE InsertByIndex(ents[1], SortByIndex(Tail(ents)))

\* Object.entries(v): array indices in ascending order, then the other keys in
\* creation order (OrdinaryOwnPropertyKeys); the elements of an array by index
ObjectEntries(v) ==
    CASE v.k = "object" -> SortByIndex(IndexEntries(v.ents)) \o StringEntries(v.ents)
      [] v.k = "array" -> [i \in 1..Len(v.items) |-> <<NatToString(i - 1), v.items[i]>>]
      [] OTHER -> <<>>

ObjectKeys(v) == [i \in 1..Len(ObjectEntries(v)) |-> ObjectEntries(v)[i][1]]

\* key in v, for the keys the validator asks about (none is inherited)
In(key, v) == v.k = "object" /\ \E i \in 1..Len(v.ents) : v.ents[i][1] = key

\* v[key]
Get(v, key) ==
    IF In(key, v)
    THEN v.ents[CHOOSE i \in 1..Len(v.ents) : v.ents[i][1] = key][2]
    ELSE Undefined

\* key.startsWith('$')
startsWithDollar(key) == key # <<>> /\ key[1] = "$"

\* CreateDataProperty: an existing key keeps its place and takes the new value
CreateDataProperty(ents, key, value) ==
    IF \E i \in 1..Len(ents) : ents[i][1] = key
    THEN [i \in 1..Len(ents) |-> IF ents[i][1] = key THEN <<key, value>> ELSE ents[i]]
    ELSE Append(ents, <<key, value>>)

\* JSON.parse of the text of a JSON value, the text being given by the value it
\* writes down (members in the order written, duplicate names allowed)
RECURSIVE JSONparse(_)
RECURSIVE ParseMembers(_, _, _)
ParseMembers(members, i, ents) ==
    IF i > Len(members) THEN ents
    ELSE ParseMembers(members, i + 1,
                      CreateDataProperty(ents, members[i][1], JSONparse(members[i][2])))

JSONparse(text) ==
    CASE text.k = "object" -> Obj(ParseMembers(text.ents, 1, <<>>))
      [] text.k = "array" -> Arr([i \in 1..Len(text.items) |-> JSONparse(text.items[i])])
      [] OTHER -> text

-----------------------------------------------------------------------------
(* Property names and literals *)

P_value == <<"$", "v", "a", "l", "u", "e">>
P_type == <<"$", "t", "y", "p", "e">>

\* .join(sep) of a sequence of strings
RECURSIVE join(_, _)
join(strs, sep) ==
    IF strs = <<>> THEN <<>>
    ELSE IF Len(strs) = 1 THEN strs[1]
    ELSE strs[1] \o sep \o join(Tail(strs), sep)

\* a message: the template literal and the values interpolated into it
Msg(text, args) == [text |-> text, args |-> args]

-----------------------------------------------------------------------------
(* Regular expressions *)

HexChars == {"0", "1", "2", "3", "4", "5", "6", "7", "8", "9",
             "a", "b", "c", "d", "e", "f", "A", "B", "C", "D", "E", "F"}

\* the characters `.` does not match
LineTerminators == {"\n", "\r"}

\* /^#[0-9a-fA-F]{6}$/
matchesHex6(s) ==
    /\ Len(s) = 7
    /\ s[1] = "#"
    /\ \A i \in 2..7 : s[i] \in HexChars

\* /^\{.+\}$/
matchesReference(s) ==
    /\ Len(s) >= 3
    /\ s[1] = "{"
    /\ s[Len(s)] = "}"
    /\ \A i \in 2..(Len(s) - 1) : s[i] \notin LineTerminators

\* the number of leading digits of s from position i on
RECURSIVE DigitRun(_, _)
DigitRun(s, i) ==
    IF i <= Len(s) /\ IsDigit(s[i]) THEN 1 + DigitRun(s, i + 1) ELSE 0

\* /^-?\d+(\.\d+)?(px|rem)$/
matchesDimension(s) ==
    LET i0 == IF s # <<>> /\ s[1] = "-" THEN 2 ELSE 1
        n1 == DigitRun(s, i0)
        i1 == i0 + n1
        frac == i1 <= Len(s) /\ s[i1] = "." /\ DigitRun(s, i1 + 1) > 0
        i2 == IF frac THEN i1 + 1 + DigitRun(s, i1 + 1) ELSE i1
        unit == SubSeq(s, i2, Len(s))
    IN  /\ n1 > 0
        /\ unit \in {<<"p", "x">>, <<"r", "e", "m">>}

\* /[{}."]/.test(key)
hasInvalidCharacters(key) ==
    \E i \in 1..Len(key) : key[i] \in {"{", "}", ".", "\""}

-----------------------------------------------------------------------------
(* References and the registry *)

\* line 458
isReference(value) == typeof(value) = "string" /\ matchesReference(value.s)

\* line 466: reference.replace(/^\{|\}$/g, '')
extractReferencePath(reference) ==
    LET s1 == IF reference # <<>> /\ reference[1] = "{" THEN Tail(reference) ELSE reference
    IN  IF s1 # <<>> /\ s1[Len(s1)] = "}" THEN SubSeq(s1, 1, Len(s1) - 1) ELSE s1

\* path ? `${path}.${key}` : key
joinPath(path, key) == IF path # <<>> THEN path \o <<".">> \o key ELSE key

\* a Map: its keys in insertion order and the value of each
NewMap == [k |-> "Map", keys |-> <<>>, at |-> <<>>]

MapHas(map, key) == \E i \in 1..Len(map.keys) : map.keys[i] = key

MapGet(map, key) ==
    IF MapHas(map, key)
    THEN map.at[CHOOSE i \in 1..Len(map.keys) : map.keys[i] = key]
    ELSE Undefined

MapSet(map, key, value) ==
    IF MapHas(map, key)
    THEN [map EXCEPT !.at = [i \in 1..Len(map.keys) |->
                                IF map.keys[i] = key THEN value ELSE map.at[i]]]
    ELSE [map EXCEPT !.keys = Append(@, key), !.at = Append(@, value)]

\* a Set: its elements in insertion order
NewSet == <<>>

SetHas(set, x) == \E i \in 1..Len(set) : set[i] = x

SetAdd(set, x) == IF SetHas(set, x) THEN set ELSE Append(set, x)

\* { ...value, $type: tokenType, $path: currentPath }
registryRecord(value, tokenType, currentPath) ==
    [k |-> "object", value |-> Get(value, P_value), type |-> tokenType,
     path |-> currentPath, token |-> value]

\* buildTokenRegistry letting the type of an outer group win over that of an
\* inner one (line 492 as `parentType || value.$type`)
RECURSIVE buildTokenRegistryFromOuterFirst(_, _, _, _, _)
buildTokenRegistryFromOuterFirst(obj, i, path, reg, parentType) ==
    IF i > Len(ObjectEntries(obj)) THEN reg
    ELSE
        LET key == ObjectEntries(obj)[i][1]
            value == ObjectEntries(obj)[i][2]
            currentPath == joinPath(path, key)
        IN  IF startsWithDollar(key)
            THEN buildTokenRegistryFromOuterFirst(obj, i + 1, path, reg, parentType)
            ELSE IF Truthy(value) /\ typeof(value) = "object"
            THEN IF In(P_value, value)
                 THEN buildTokenRegistryFromOuterFirst(obj, i + 1, path,
                          MapSet(reg, currentPath,
                                 registryRecord(value, Or(Get(value, P_type), parentType),
                                                currentPath)),
                          parentType)
                 ELSE buildTokenRegistryFromOuterFirst(obj, i + 1, path,
                          buildTokenRegistryFromOuterFirst(value, 1, currentPath, reg,
                                                 Or(parentType, Get(value, P_type))),
                          parentType)
            ELSE buildTokenRegistryFromOuterFirst(obj, i + 1, path, reg, parentType)

\* lines 474-497; `i` is the position of the for-of loop in Object.entries(obj)
RECURSIVE buildTokenRegistryFrom(_, _, _, _, _)
buildTokenRegistryFrom(obj, i, path, reg, parentType) ==
    IF i > Len(ObjectEntries(obj)) THEN reg
    ELSE
        LET key == ObjectEntries(obj)[i][1]
            value == ObjectEntries(obj)[i][2]
            currentPath == joinPath(path, key)
        IN  IF startsWithDollar(key)
            THEN buildTokenRegistryFrom(obj, i + 1, path, reg, parentType)
            ELSE IF Truthy(value) /\ typeof(value) = "object"
            THEN IF In(P_value, value)
                 THEN buildTokenRegistryFrom(obj, i + 1, path,
                          MapSet(reg, currentPath,
                                 registryRecord(value, Or(Get(value, P_type), parentType),
                                                currentPath)),
                          parentType)
                 ELSE buildTokenRegistryFrom(obj, i + 1, path,
                          buildTokenRegistryFrom(value, 1, currentPath, reg,
                                                 Or(Get(value, P_type), parentType)),
                          parentType)
            ELSE buildTokenRegistryFrom(obj, i + 1, path, reg, parentType)

buildTokenRegistry(obj, path, reg, parentType) ==
    buildTokenRegistryFrom(obj, 1, path, reg, parentType)

\* line 507 without `→ ${referencePath}`: the paths visited, the path met again
\* not repeated after them
circularMessageChainOnly(visitedPaths, referencePath) ==
    Msg("Circular reference detected: ${Array.from(visitedPaths).join(' → ')} → ${referencePath}",
        <<Str(join(visitedPaths, <<" ", "→", " ">>)), Str(<<>>)>>)

circularMessage(visitedPaths, referencePath) ==
    Msg("Circular reference detected: ${Array.from(visitedPaths).join(' → ')} → ${referencePath}",
        <<Str(join(visitedPaths, <<" ", "→", " ">>)), Str(referencePath)>>)

nonExistentMessage(referencePath) ==
    Msg("Reference \"{${referencePath}}\" points to non-existent token",
        <<Str(referencePath)>>)

\* resolveReference without lines 504-509: a path met again ends the walk with
\* nothing resolved instead of the "Circular reference" error
RECURSIVE resolveReferenceRevisitSilent(_, _, _)
resolveReferenceRevisitSilent(referencePath, reg, visitedPaths) ==
    IF SetHas(visitedPaths, referencePath)
    THEN [value |-> Undefined, type |-> Undefined]
    ELSE
        LET token == MapGet(reg, referencePath)
        IN  IF ~Truthy(token)
            THEN [error |-> nonExistentMessage(referencePath)]
            ELSE IF isReference(token.value)
            THEN resolveReferenceRevisitSilent(extractReferencePath(token.value.s), reg,
                                               SetAdd(visitedPaths, referencePath))
            ELSE [value |-> token.value, type |-> token.type]

\* resolveReference without lines 513-517: a path the registry does not hold
\* resolves to nothing instead of the "non-existent token" error
RECURSIVE resolveReferenceMissingSilent(_, _, _)
resolveReferenceMissingSilent(referencePath, reg, visitedPaths) ==
    IF SetHas(visitedPaths, referencePath)
    THEN [error |-> circularMessage(visitedPaths, referencePath)]
    ELSE
        LET token == MapGet(reg, referencePath)
        IN  IF ~Truthy(token)
            THEN [value |-> Undefined, type |-> Undefined]
            ELSE IF isReference(token.value)
            THEN resolveReferenceMissingSilent(extractReferencePath(token.value.s), reg,
                                               SetAdd(visitedPaths, referencePath))
            ELSE [value |-> token.value, type |-> token.type]

\* lines 503-533
RECURSIVE resolveReference(_, _, _)
resolveReference(referencePath, reg, visitedPaths) ==
    IF SetHas(visitedPaths, referencePath)
    THEN [error |-> circularMessage(visitedPaths, referencePath)]
    ELSE
        LET token == MapGet(reg, referencePath)
        IN  IF ~Truthy(token)
            THEN [error |-> nonExistentMessage(referencePath)]
            ELSE IF isReference(token.value)
            THEN resolveReference(extractReferencePath(token.value.s), reg,
                                  SetAdd(visitedPaths, referencePath))
            ELSE [value |-> token.value, type |-> token.type]

-----------------------------------------------------------------------------
(* Tables *)

S_colorSpace == <<"c", "o", "l", "o", "r", "S", "p", "a", "c", "e">>
S_components == <<"c", "o", "m", "p", "o", "n", "e", "n", "t", "s">>
S_hex == <<"h", "e", "x">>
S_alpha == <<"a", "l", "p", "h", "a">>
S_value == <<"v", "a", "l", "u", "e">>
S_unit == <<"u", "n", "i", "t">>
S_dashArray == <<"d", "a", "s", "h", "A", "r", "r", "a", "y">>
S_lineCap == <<"l", "i", "n", "e", "C", "a", "p">>
S_color == <<"c", "o", "l", "o", "r">>
S_width == <<"w", "i", "d", "t", "h">>
S_style == <<"s", "t", "y", "l", "e">>
S_duration == <<"d", "u", "r", "a", "t", "i", "o", "n">>
S_delay == <<"d", "e", "l", "a", "y">>
S_timingFunction == <<"t", "i", "m", "i", "n", "g", "F", "u", "n", "c", "t", "i", "o", "n">>
S_offsetX == <<"o", "f", "f", "s", "e", "t", "X">>
S_offsetY == <<"o", "f", "f", "s", "e", "t", "Y">>
S_blur == <<"b", "l", "u", "r">>
S_spread == <<"s", "p", "r", "e", "a", "d">>
S_inset == <<"i", "n", "s", "e", "t">>
S_position == <<"p", "o", "s", "i", "t", "i", "o", "n">>
S_fontFamily == <<"f", "o", "n", "t", "F", "a", "m", "i", "l", "y">>
S_fontSize == <<"f", "o", "n", "t", "S", "i", "z", "e">>
S_fontWeight == <<"f", "o", "n", "t", "W", "e", "i", "g", "h", "t">>
S_letterSpacing == <<"l", "e", "t", "t", "e", "r", "S", "p", "a", "c", "i", "n", "g">>
S_lineHeight == <<"l", "i", "n", "e", "H", "e", "i", "g", "h", "t">>
S_dimension == <<"d", "i", "m", "e", "n", "s", "i", "o", "n">>
S_cubicBezier == <<"c", "u", "b", "i", "c", "B", "e", "z", "i", "e", "r">>
S_number == <<"n", "u", "m", "b", "e", "r">>
S_strokeStyle == <<"s", "t", "r", "o", "k", "e", "S", "t", "y", "l", "e">>
S_border == <<"b", "o", "r", "d", "e", "r">>
S_transition == <<"t", "r", "a", "n", "s", "i", "t", "i", "o", "n">>
S_shadow == <<"s", "h", "a", "d", "o", "w">>
S_gradient == <<"g", "r", "a", "d", "i", "e", "n", "t">>
S_typography == <<"t", "y", "p", "o", "g", "r", "a", "p", "h", "y">>

\* lines 47-61
VALID_TOKEN_TYPES ==
    <<S_color,
      S_dimension,
      S_fontFamily,
      S_fontWeight,
      S_duration,
      S_cubicBezier,
      S_number,
      S_strokeStyle,
      S_border,
      S_transition,
      S_shadow,
      S_gradient,
      S_typography>>

\* lines 66-85: the own keys of FONT_WEIGHT_ALIASES
FONT_WEIGHT_ALIASES ==
    {<<"t", "h", "i", "n">>,
     <<"h", "a", "i", "r", "l", "i", "n", "e">>,
     <<"e", "x", "t", "r", "a", "-", "l", "i", "g", "h", "t">>,
     <<"u", "l", "t", "r", "a", "-", "l", "i", "g", "h", "t">>,
     <<"l", "i", "g", "h", "t">>,
     <<"n", "o", "r", "m", "a", "l">>,
     <<"r", "e", "g", "u", "l", "a", "r">>,
     <<"b", "o", "o", "k">>,
     <<"m", "e", "d", "i", "u", "m">>,
     <<"s", "e", "m", "i", "-", "b", "o", "l", "d">>,
     <<"d", "e", "m", "i", "-", "b", "o", "l", "d">>,
     <<"b", "o", "l", "d">>,
     <<"e", "x", "t", "r", "a", "-", "b", "o", "l", "d">>,
     <<"u", "l", "t", "r", "a", "-", "b", "o", "l", "d">>,
     <<"b", "l", "a", "c", "k">>,
     <<"h", "e", "a", "v", "y">>,
     <<"e", "x", "t", "r", "a", "-", "b", "l", "a", "c", "k">>,
     <<"u", "l", "t", "r", "a", "-", "b", "l", "a", "c", "k">>}

\* lines 90-99
STROKE_STYLE_VALUES ==
    <<<<"s", "o", "l", "i", "d">>,
      <<"d", "a", "s", "h", "e", "d">>,
      <<"d", "o", "t", "t", "e", "d">>,
      <<"d", "o", "u", "b", "l", "e">>,
      <<"g", "r", "o", "o", "v", "e">>,
      <<"r", "i", "d", "g", "e">>,
      <<"o", "u", "t", "s", "e", "t">>,
      <<"i", "n", "s", "e", "t">>>>

LINE_CAPS == <<<<"r", "o", "u", "n", "d">>, <<"b", "u", "t", "t">>, <<"s", "q", "u", "a", "r", "e">>>>

Infinity == [k |-> "number", inf |-> 1]
NegInfinity == [k |-> "number", inf |-> -1]

\* lines 105-120: the own properties of COLOR_SPACES, in order
COLOR_SPACES ==
    <<[name |-> <<"s", "r", "g", "b">>,
       components |-> 3,
       ranges |-> <<<<Num(0), Num(1000)>>, <<Num(0), Num(1000)>>, <<Num(0), Num(1000)>>>>],
      [name |-> <<"s", "r", "g", "b", "-", "l", "i", "n", "e", "a", "r">>,
       components |-> 3,
       ranges |-> <<<<Num(0), Num(1000)>>, <<Num(0), Num(1000)>>, <<Num(0), Num(1000)>>>>],
      [name |-> <<"h", "s", "l">>,
       components |-> 3,
       ranges |-> <<<<Num(0), Num(360000)>>, <<Num(0), Num(100000)>>, <<Num(0), Num(100000)>>>>],
      [name |-> <<"h", "w", "b">>,
       components |-> 3,
       ranges |-> <<<<Num(0), Num(360000)>>, <<Num(0), Num(100000)>>, <<Num(0), Num(100000)>>>>],
      [name |-> <<"l", "a", "b">>,
       components |-> 3,
       ranges |-> <<<<Num(0), Num(100000)>>, <<NegInfinity, Infinity>>, <<NegInfinity, Infinity>>>>],
      [name |-> <<"l", "c", "h">>,
       components |-> 3,
       ranges |-> <<<<Num(0), Num(100000)>>, <<Num(0), Infinity>>, <<Num(0), Num(360000)>>>>],
      [name |-> <<"o", "k", "l", "a", "b">>,
       components |-> 3,
       ranges |-> <<<<Num(0), Num(1000)>>, <<NegInfinity, Infinity>>, <<NegInfinity, Infinity>>>>],
      [name |-> <<"o", "k", "l", "c", "h">>,
       components |-> 3,
       ranges |-> <<<<Num(0), Num(1000)>>, <<Num(0), Infinity>>, <<Num(0), Num(360000)>>>>],
      [name |-> <<"d", "i", "s", "p", "l", "a", "y", "-", "p", "3">>,
       components |-> 3,
       ranges |-> <<<<Num(0), Num(1000)>>, <<Num(0), Num(1000)>>, <<Num(0), Num(1000)>>>>],
      [name |-> <<"a", "9", "8", "-", "r", "g", "b">>,
       components |-> 3,
       ranges |-> <<<<Num(0), Num(1000)>>, <<Num(0), Num(1000)>>, <<Num(0), Num(1000)>>>>],
      [name |-> <<"p", "r", "o", "p", "h", "o", "t", "o", "-", "r", "g", "b">>,
       components |-> 3,
       ranges |-> <<<<Num(0), Num(1000)>>, <<Num(0), Num(1000)>>, <<Num(0), Num(1000)>>>>],
      [name |-> <<"r", "e", "c", "2", "0", "2", "0">>,
       components |-> 3,
       ranges |-> <<<<Num(0), Num(1000)>>, <<Num(0), Num(1000)>>, <<Num(0), Num(1000)>>>>],
      [name |-> <<"x", "y", "z", "-", "d", "6", "5">>,
       components |-> 3,
       ranges |-> <<<<NegInfinity, Infinity>>, <<NegInfinity, Infinity>>, <<NegInfinity, Infinity>>>>],
      [name |-> <<"x", "y", "z", "-", "d", "5", "0">>,
       components |-> 3,
       ranges |-> <<<<NegInfinity, Infinity>>, <<NegInfinity, Infinity>>, <<NegInfinity, Infinity>>>>]>>

\* the property names every object inherits from Object.prototype
OBJECT_PROTOTYPE_KEYS ==
    {<<"c", "o", "n", "s", "t", "r", "u", "c", "t", "o", "r">>,
     <<"t", "o", "S", "t", "r", "i", "n", "g">>,
     <<"v", "a", "l", "u", "e", "O", "f">>,
     <<"h", "a", "s", "O", "w", "n", "P", "r", "o", "p", "e", "r", "t", "y">>,
     <<"i", "s", "P", "r", "o", "t", "o", "t", "y", "p", "e", "O", "f">>,
     <<"p", "r", "o", "p", "e", "r", "t", "y", "I", "s", "E", "n", "u", "m", "e", "r", "a", "b", "l", "e">>,
     <<"t", "o", "L", "o", "c", "a", "l", "e", "S", "t", "r", "i", "n", "g">>,
     <<"_", "_", "p", "r", "o", "t", "o", "_", "_">>,
     <<"_", "_", "d", "e", "f", "i", "n", "e", "G", "e", "t", "t", "e", "r", "_", "_">>,
     <<"_", "_", "d", "e", "f", "i", "n", "e", "S", "e", "t", "t", "e", "r", "_", "_">>,
     <<"_", "_", "l", "o", "o", "k", "u", "p", "G", "e", "t", "t", "e", "r", "_", "_">>,
     <<"_", "_", "l", "o", "o", "k", "u", "p", "S", "e", "t", "t", "e", "r", "_", "_">>}

\* ToPropertyKey for the values a JSON document can hold in colorSpace: a string
\* is its own key, a one-element array is the key of its element, and every
\* other value has a key that names no property of COLOR_SPACES
NoSuchKey == <<"?">>

RECURSIVE ToPropertyKey(_)
ToPropertyKey(v) ==
    CASE v.k = "string" -> v.s
      [] v.k = "array" /\ Len(v.items) = 1 -> ToPropertyKey(v.items[1])
      [] OTHER -> NoSuchKey

\* COLOR_SPACES[key]: an own entry, an inherited member (which has neither
\* components nor ranges), or undefined
colorSpaceLookup(key) ==
    IF \E i \in 1..Len(COLOR_SPACES) : COLOR_SPACES[i].name = key
    THEN LET e == COLOR_SPACES[CHOOSE i \in 1..Len(COLOR_SPACES) : COLOR_SPACES[i].name = key]
         IN  [k |-> "object", own |-> TRUE, components |-> e.components, ranges |-> e.ranges]
    ELSE IF key \in OBJECT_PROTOTYPE_KEYS
    THEN [k |-> "object", own |-> FALSE]
    ELSE Undefined

\* Object.keys(COLOR_SPACES).join(', ')
supportedColorSpaces ==
    join([i \in 1..Len(COLOR_SPACES) |-> COLOR_SPACES[i].name], <<",", " ">>)

includes(seq, v) == \E i \in 1..Len(seq) : v = Str(seq[i])

-----------------------------------------------------------------------------
(* The accumulators *)

\* errors and warnings, and for each message the node whose loop iteration
\* pushed it, by the keys that lead to it and by its path (history, filled in by
\* the tree walk)
NewAcc == [errors |-> <<>>, warnings |-> <<>>, errorsAt |-> <<>>, warningsAt |-> <<>>]

pushError(acc, m) == [acc EXCEPT !.errors = Append(@, m)]

pushWarning(acc, m) == [acc EXCEPT !.warnings = Append(@, m)]

\* history: the messages pushed since the last call of Tag were pushed at `at`
Tag(acc, at) ==
    [acc EXCEPT
        !.errorsAt = @ \o [i \in 1..(Len(acc.errors) - Len(@)) |-> at],
        !.warningsAt = @ \o [i \in 1..(Len(acc.warnings) - Len(@)) |-> at]]

idxStr(idx) == Str(NatToString(idx))

-----------------------------------------------------------------------------
(* Value validators *)

\* colorComponentRange accepting a hue of 360 (line 182 as `component > 360`)
colorComponentRangeHue360(value, info, path, acc, idx) ==
    LET component == value.items[idx + 1]
        min == info.ranges[idx + 1][1]
        max == info.ranges[idx + 1][2]
        colorSpace == Get(value.obj, S_colorSpace)
        isHueComponent ==
            \/ (colorSpace = Str(<<"h", "s", "l">>) /\ idx = 0)
            \/ (colorSpace = Str(<<"h", "w", "b">>) /\ idx = 0)
            \/ (colorSpace = Str(<<"l", "c", "h">>) /\ idx = 2)
            \/ (colorSpace = Str(<<"o", "k", "l", "c", "h">>) /\ idx = 2)
    IN  IF isHueComponent
        THEN IF component.n < 0 \/ component.n > 360 * 1000
             THEN pushError(acc, Msg("Color hue component at ${path}.components[${idx}] must be >= 0 and < 360",
                                     <<Str(path), idxStr(idx)>>))
             ELSE acc
        ELSE IF min # NegInfinity /\ max # Infinity
        THEN IF component.n < min.n \/ component.n > max.n
             THEN pushError(acc, Msg("Color component at ${path}.components[${idx}] must be between ${min} and ${max}",
                                     <<Str(path), idxStr(idx), min, max>>))
             ELSE acc
        ELSE IF min # NegInfinity /\ max = Infinity
        THEN IF component.n < min.n
             THEN pushError(acc, Msg("Color component at ${path}.components[${idx}] must be >= ${min}",
                                     <<Str(path), idxStr(idx), min>>))
             ELSE acc
        ELSE acc

\* lines 180-195: the range check of one numeric component
colorComponentRange(value, info, path, acc, idx) ==
    LET component == value.items[idx + 1]
        min == info.ranges[idx + 1][1]
        max == info.ranges[idx + 1][2]
        colorSpace == Get(value.obj, S_colorSpace)
        isHueComponent ==
            \/ (colorSpace = Str(<<"h", "s", "l">>) /\ idx = 0)
            \/ (colorSpace = Str(<<"h", "w", "b">>) /\ idx = 0)
            \/ (colorSpace = Str(<<"l", "c", "h">>) /\ idx = 2)
            \/ (colorSpace = Str(<<"o", "k", "l", "c", "h">>) /\ idx = 2)
    IN  IF isHueComponent
        THEN IF component.n < 0 \/ component.n >= 360 * 1000
             THEN pushError(acc, Msg("Color hue component at ${path}.components[${idx}] must be >= 0 and < 360",
                                     <<Str(path), idxStr(idx)>>))
             ELSE acc
        ELSE IF min # NegInfinity /\ max # Infinity
        THEN IF component.n < min.n \/ component.n > max.n
             THEN pushError(acc, Msg("Color component at ${path}.components[${idx}] must be between ${min} and ${max}",
                                     <<Str(path), idxStr(idx), min, max>>))
             ELSE acc
        ELSE IF min # NegInfinity /\ max = Infinity
        THEN IF component.n < min.n
             THEN pushError(acc, Msg("Color component at ${path}.components[${idx}] must be >= ${min}",
                                     <<Str(path), idxStr(idx), min>>))
             ELSE acc
        ELSE acc

\* lines 162-198: value.components.forEach, from index idx on; `value` carries
\* the color object (obj) and its components (items)
RECURSIVE colorComponents(_, _, _, _, _)
colorComponents(value, info, path, acc, idx) ==
    IF idx >= Len(value.items) THEN acc
    ELSE
        LET component == value.items[idx + 1]
        IN  IF component # Str(<<"n", "o", "n", "e">>) /\ typeof(component) # "number"
            THEN colorComponents(value, info, path,
                     pushError(acc, Msg("Color component at ${path}.components[${idx}] must be a number or \"none\"",
                                        <<Str(path), idxStr(idx)>>)),
                     idx + 1)
            ELSE IF typeof(component) = "number"
            THEN colorComponents(value, info, path,
                     colorComponentRange(value, info, path, acc, idx), idx + 1)
            ELSE colorComponents(value, info, path, acc, idx + 1)

\* lines 200-207
colorHex(value, path, acc) ==
    LET hex == Get(value, S_hex)
    IN  IF hex # Undefined
        THEN IF typeof(hex) # "string"
             THEN pushError(acc, Msg("Color hex property at ${path} must be a string", <<Str(path)>>))
             ELSE IF ~matchesHex6(hex.s)
             THEN pushError(acc, Msg("Color hex property at ${path} must be 6-digit hex format (#rrggbb)", <<Str(path)>>))
             ELSE acc
        ELSE acc

\* lines 209-216
colorAlpha(value, path, acc) ==
    LET alpha == Get(value, S_alpha)
    IN  IF alpha # Undefined
        THEN IF typeof(alpha) # "number"
             THEN pushError(acc, Msg("Color alpha property at ${path} must be a number", <<Str(path)>>))
             ELSE IF alpha.n < 0 \/ alpha.n > 1 * 1000
             THEN pushError(acc, Msg("Color alpha property at ${path} must be between 0 and 1", <<Str(path)>>))
             ELSE acc
        ELSE acc

\* validateColorValue rejecting only a components array that is too long (line
\* 156 as `value.components.length > colorSpaceInfo.components`)
validateColorValueTooLongOnly(value, path, acc) ==
    IF typeof(value) = "string"
    THEN IF ~matchesHex6(value.s) /\ ~matchesReference(value.s)
         THEN pushWarning(acc, Msg("Color at ${path} should be in 6-digit hex format (#rrggbb) or a reference",
                                   <<Str(path)>>))
         ELSE acc
    ELSE IF typeof(value) = "object" /\ value # Null
    THEN
        LET colorSpace == Get(value, S_colorSpace)
            colorSpaceInfo == colorSpaceLookup(ToPropertyKey(colorSpace))
            components == Get(value, S_components)
        IN  IF ~Truthy(colorSpace)
            THEN pushError(acc, Msg("Color object at ${path} must have colorSpace property", <<Str(path)>>))
            ELSE IF ~Truthy(colorSpaceInfo)
            THEN pushError(acc, Msg("Color at ${path} has unsupported colorSpace \"${value.colorSpace}\". Supported: ${Object.keys(COLOR_SPACES).join(', ')}",
                                    <<Str(path), colorSpace, Str(supportedColorSpaces)>>))
            ELSE IF ~isArray(components)
            THEN pushError(acc, Msg("Color object at ${path} must have components array", <<Str(path)>>))
            ELSE IF ~colorSpaceInfo.own
            THEN pushError(acc, Msg("Color object at ${path} must have components array with exactly ${colorSpaceInfo.components} values",
                                    <<Str(path), Undefined>>))
            ELSE IF Len(components.items) > colorSpaceInfo.components
            THEN pushError(acc, Msg("Color object at ${path} must have components array with exactly ${colorSpaceInfo.components} values",
                                    <<Str(path), idxStr(colorSpaceInfo.components)>>))
            ELSE colorAlpha(value, path,
                     colorHex(value, path,
                         colorComponents([obj |-> value, items |-> components.items],
                                         colorSpaceInfo, path, acc, 0)))
    ELSE pushError(acc, Msg("Color at ${path} must be a string or object", <<Str(path)>>))

\* lines 129-220
validateColorValue(value, path, acc) ==
    IF typeof(value) = "string"
    THEN IF ~matchesHex6(value.s) /\ ~matchesReference(value.s)
         THEN pushWarning(acc, Msg("Color at ${path} should be in 6-digit hex format (#rrggbb) or a reference",
                                   <<Str(path)>>))
         ELSE acc
    ELSE IF typeof(value) = "object" /\ value # Null
    THEN
        LET colorSpace == Get(value, S_colorSpace)
            colorSpaceInfo == colorSpaceLookup(ToPropertyKey(colorSpace))
            components == Get(value, S_components)
        IN  IF ~Truthy(colorSpace)
            THEN pushError(acc, Msg("Color object at ${path} must have colorSpace property", <<Str(path)>>))
            ELSE IF ~Truthy(colorSpaceInfo)
            THEN pushError(acc, Msg("Color at ${path} has unsupported colorSpace \"${value.colorSpace}\". Supported: ${Object.keys(COLOR_SPACES).join(', ')}",
                                    <<Str(path), colorSpace, Str(supportedColorSpaces)>>))
            ELSE IF ~isArray(components)
            THEN pushError(acc, Msg("Color object at ${path} must have components array", <<Str(path)>>))
            ELSE IF ~colorSpaceInfo.own
            THEN pushError(acc, Msg("Color object at ${path} must have components array with exactly ${colorSpaceInfo.components} values",
                                    <<Str(path), Undefined>>))
            ELSE IF Len(components.items) # colorSpaceInfo.components
            THEN pushError(acc, Msg("Color object at ${path} must have components array with exactly ${colorSpaceInfo.components} values",
                                    <<Str(path), idxStr(colorSpaceInfo.components)>>))
            ELSE colorAlpha(value, path,
                     colorHex(value, path,
                         colorComponents([obj |-> value, items |-> components.items],
                                         colorSpaceInfo, path, acc, 0)))
    ELSE pushError(acc, Msg("Color at ${path} must be a string or object", <<Str(path)>>))

\* lines 226-243
validateDimensionValue(value, path, acc) ==
    IF typeof(value) = "string"
    THEN IF ~matchesDimension(value.s) /\ ~matchesReference(value.s)
         THEN pushError(acc, Msg("Dimension at ${path} must be a number with unit \"px\" or \"rem\" (e.g., \"16px\", \"1rem\") or a reference",
                                 <<Str(path)>>))
         ELSE acc
    ELSE IF typeof(value) = "object" /\ value # Null
    THEN
        LET acc1 == IF typeof(Get(value, S_value)) # "number"
                    THEN pushError(acc, Msg("Dimension object at ${path} must have numeric value property", <<Str(path)>>))
                    ELSE acc
        IN  IF Get(value, S_unit) # Str(<<"p", "x">>) /\ Get(value, S_unit) # Str(<<"r", "e", "m">>)
            THEN pushError(acc1, Msg("Dimension unit at ${path} must be \"px\" or \"rem\"", <<Str(path)>>))
            ELSE acc1
    ELSE IF typeof(value) # "number"
    THEN pushError(acc, Msg("Dimension at ${path} must be a number, string with unit, or object with value/unit properties",
                            <<Str(path)>>))
    ELSE acc

\* lines 249-260
validateDurationValue(value, path, acc) ==
    IF typeof(value) = "object" /\ value # Null /\ ~isArray(value)
    THEN
        LET acc1 == IF typeof(Get(value, S_value)) # "number"
                    THEN pushError(acc, Msg("Duration object at ${path} must have numeric value property", <<Str(path)>>))
                    ELSE acc
        IN  IF Get(value, S_unit) # Str(<<"m", "s">>) /\ Get(value, S_unit) # Str(<<"s">>)
            THEN pushError(acc1, Msg("Duration unit at ${path} must be \"ms\" or \"s\"", <<Str(path)>>))
            ELSE acc1
    ELSE pushError(acc, Msg("Duration at ${path} must be an object with value and unit properties", <<Str(path)>>))

\* lines 273-277: value.forEach, from index idx on
RECURSIVE cubicBezierNumbers(_, _, _, _)
cubicBezierNumbers(value, path, acc, idx) ==
    IF idx >= Len(value.items) THEN acc
    ELSE cubicBezierNumbers(value, path,
             IF typeof(value.items[idx + 1]) # "number"
             THEN pushError(acc, Msg("cubicBezier at ${path}[${idx}] must be a number", <<Str(path), idxStr(idx)>>))
             ELSE acc,
             idx + 1)

\* lines 267-286
validateCubicBezierValue(value, path, acc) ==
    IF ~isArray(value) \/ Len(value.items) # 4
    THEN pushError(acc, Msg("cubicBezier at ${path} must be an array of exactly 4 numbers", <<Str(path)>>))
    ELSE
        LET acc1 == cubicBezierNumbers(value, path, acc, 0)
            v0 == value.items[1]
            v2 == value.items[3]
            acc2 == IF typeof(v0) = "number" /\ (v0.n < 0 \/ v0.n > 1 * 1000)
                    THEN pushError(acc1, Msg("cubicBezier at ${path}[0] (P1x) must be in range [0, 1]", <<Str(path)>>))
                    ELSE acc1
        IN  IF typeof(v2) = "number" /\ (v2.n < 0 \/ v2.n > 1 * 1000)
            THEN pushError(acc2, Msg("cubicBezier at ${path}[2] (P2x) must be in range [0, 1]", <<Str(path)>>))
            ELSE acc2

\* lines 292-313
validateStrokeStyleValue(value, path, acc) ==
    IF typeof(value) = "string"
    THEN IF ~includes(STROKE_STYLE_VALUES, value)
         THEN pushError(acc, Msg("strokeStyle at ${path} must be one of: ${STROKE_STYLE_VALUES.join(', ')}",
                                 <<Str(path), Str(join(STROKE_STYLE_VALUES, <<",", " ">>))>>))
         ELSE acc
    ELSE IF typeof(value) = "object" /\ value # Null
    THEN
        LET dashArray == Get(value, S_dashArray)
            lineCap == Get(value, S_lineCap)
            acc1 == IF ~Truthy(dashArray)
                    THEN pushError(acc, Msg("strokeStyle object at ${path} must have dashArray property", <<Str(path)>>))
                    ELSE IF ~isArray(dashArray)
                    THEN pushError(acc, Msg("strokeStyle dashArray at ${path} must be an array", <<Str(path)>>))
                    ELSE acc
        IN  IF ~Truthy(lineCap)
            THEN pushError(acc1, Msg("strokeStyle object at ${path} must have lineCap property", <<Str(path)>>))
            ELSE IF ~includes(LINE_CAPS, lineCap)
            THEN pushError(acc1, Msg("strokeStyle lineCap at ${path} must be \"round\", \"butt\", or \"square\"", <<Str(path)>>))
            ELSE acc1
    ELSE pushError(acc, Msg("strokeStyle at ${path} must be a string or object", <<Str(path)>>))

\* lines 319-336
validateBorderValue(value, path, acc) ==
    IF typeof(value) # "object" \/ value = Null
    THEN pushError(acc, Msg("Border at ${path} must be an object", <<Str(path)>>))
    ELSE
        LET acc1 == IF ~Truthy(Get(value, S_color))
                    THEN pushError(acc, Msg("Border at ${path} must have color property", <<Str(path)>>))
                    ELSE acc
            acc2 == IF ~Truthy(Get(value, S_width))
                    THEN pushError(acc1, Msg("Border at ${path} must have width property", <<Str(path)>>))
                    ELSE acc1
        IN  IF ~Truthy(Get(value, S_style))
            THEN pushError(acc2, Msg("Border at ${path} must have style property", <<Str(path)>>))
            ELSE acc2

\* lines 342-359
validateTransitionValue(value, path, acc) ==
    IF typeof(value) # "object" \/ value = Null
    THEN pushError(acc, Msg("Transition at ${path} must be an object", <<Str(path)>>))
    ELSE
        LET acc1 == IF ~Truthy(Get(value, S_duration))
                    THEN pushError(acc, Msg("Transition at ${path} must have duration property", <<Str(path)>>))
                    ELSE acc
            acc2 == IF ~Truthy(Get(value, S_delay))
                    THEN pushError(acc1, Msg("Transition at ${path} must have delay property", <<Str(path)>>))
                    ELSE acc1
        IN  IF ~Truthy(Get(value, S_timingFunction))
            THEN pushError(acc2, Msg("Transition at ${path} must have timingFunction property", <<Str(path)>>))
            ELSE acc2

\* `for (const field of required) if (!(field in obj)) errors.push(...)`
RECURSIVE missingFields(_, _, _, _, _, _)
missingFields(text, required, i, obj, shownPath, acc) ==
    IF i > Len(required) THEN acc
    ELSE missingFields(text, required, i + 1, obj, shownPath,
             IF ~In(required[i], obj)
             THEN pushError(acc, Msg(text, <<Str(shownPath), Str(required[i])>>))
             ELSE acc)

SHADOW_REQUIRED == <<S_offsetX, S_offsetY, S_blur, S_spread, S_color>>

\* lines 368-385
validateSingleShadow(shadow, shadowPath, acc) ==
    IF typeof(shadow) # "object" \/ shadow = Null
    THEN pushError(acc, Msg("Shadow at ${shadowPath} must be an object", <<Str(shadowPath)>>))
    ELSE
        LET acc1 == missingFields("Shadow at ${shadowPath} is missing required field: ${field}",
                                  SHADOW_REQUIRED, 1, shadow, shadowPath, acc)
            inset == Get(shadow, S_inset)
        IN  IF inset # Undefined /\ typeof(inset) # "boolean"
            THEN pushError(acc1, Msg("Shadow inset property at ${shadowPath} must be a boolean", <<Str(shadowPath)>>))
            ELSE acc1

\* `${path}[${idx}]`
indexedPath(path, idx) == path \o <<"[">> \o NatToString(idx) \o <<"]">>

\* lines 389-391: value.forEach, from index idx on
RECURSIVE shadowItems(_, _, _, _)
shadowItems(value, path, acc, idx) ==
    IF idx >= Len(value.items) THEN acc
    ELSE shadowItems(value, path,
             validateSingleShadow(value.items[idx + 1], indexedPath(path, idx), acc),
             idx + 1)

\* lines 367-396
validateShadowValue(value, path, acc) ==
    IF isArray(value)
    THEN shadowItems(value, path, acc, 0)
    ELSE validateSingleShadow(value, path, acc)

\* lines 409-424: value.forEach, from index idx on
RECURSIVE gradientStops(_, _, _, _)
gradientStops(value, path, acc, idx) ==
    IF idx >= Len(value.items) THEN acc
    ELSE
        LET stop == value.items[idx + 1]
            acc1 == IF ~In(S_color, stop)
                    THEN pushError(acc, Msg("Gradient stop at ${path}[${idx}] must have color property", <<Str(path), idxStr(idx)>>))
                    ELSE acc
            acc2 == IF ~In(S_position, stop)
                    THEN pushError(acc1, Msg("Gradient stop at ${path}[${idx}] must have position property", <<Str(path), idxStr(idx)>>))
                    ELSE IF typeof(Get(stop, S_position)) # "number"
                    THEN pushError(acc1, Msg("Gradient stop position at ${path}[${idx}] must be a number", <<Str(path), idxStr(idx)>>))
                    ELSE acc1
        IN  gradientStops(value, path,
                IF typeof(stop) # "object" \/ stop = Null
                THEN pushError(acc, Msg("Gradient stop at ${path}[${idx}] must be an object", <<Str(path), idxStr(idx)>>))
                ELSE acc2,
                idx + 1)

\* lines 403-425
validateGradientValue(value, path, acc) ==
    IF ~isArray(value)
    THEN pushError(acc, Msg("Gradient at ${path} must be an array of gradient stops", <<Str(path)>>))
    ELSE gradientStops(value, path, acc, 0)

TYPOGRAPHY_REQUIRED == <<S_fontFamily, S_fontSize, S_fontWeight, S_letterSpacing, S_lineHeight>>

\* lines 447-451: for (const field of Object.keys(value)), from position i on
RECURSIVE unknownFields(_, _, _, _)
unknownFields(keys, i, path, acc) ==
    IF i > Len(keys) THEN acc
    ELSE unknownFields(keys, i + 1, path,
             IF ~includes(TYPOGRAPHY_REQUIRED, Str(keys[i]))
             THEN pushWarning(acc, Msg("Typography at ${path} has unknown field: ${field}", <<Str(path), Str(keys[i])>>))
             ELSE acc)

\* lines 431-452
validateTypographyValue(value, path, acc) ==
    IF typeof(value) # "object" \/ value = Null
    THEN pushError(acc, Msg("Typography at ${path} must be an object", <<Str(path)>>))
    ELSE unknownFields(ObjectKeys(value), 1, path,
             missingFields("Typography at ${path} is missing required field: ${field}",
                           TYPOGRAPHY_REQUIRED, 1, value, path, acc))

-----------------------------------------------------------------------------
(* Token validation and the tree walk *)

\* lines 589-593
validateFontFamilyValue(value, path, acc) ==
    IF typeof(value) # "string" /\ ~isArray(value)
    THEN pushError(acc, Msg("fontFamily at ${path} must be a string or array", <<Str(path)>>))
    ELSE acc

\* lines 594-606
validateFontWeightValue(value, path, acc) ==
    IF typeof(value) = "number"
    THEN IF value.n < 1 * 1000 \/ value.n > 1000 * 1000
         THEN pushError(acc, Msg("fontWeight at ${path} must be a number between 1-1000", <<Str(path)>>))
         ELSE acc
    ELSE IF typeof(value) = "string"
    THEN IF value.s \notin FONT_WEIGHT_ALIASES
         THEN pushError(acc, Msg("fontWeight at ${path} must be a valid weight alias (e.g., \"bold\", \"normal\") or a number between 1-1000",
                                 <<Str(path)>>))
         ELSE acc
    ELSE pushError(acc, Msg("fontWeight at ${path} must be a number or string", <<Str(path)>>))

\* lines 613-617
validateNumberValue(value, path, acc) ==
    IF typeof(value) # "number"
    THEN pushError(acc, Msg("number at ${path} must be a number", <<Str(path)>>))
    ELSE acc

\* lines 582-636: switch (type)
dispatch(type, value, path, acc) ==
    CASE type = Str(S_color) -> validateColorValue(value, path, acc)
      [] type = Str(S_dimension) -> validateDimensionValue(value, path, acc)
      [] type = Str(S_fontFamily) -> validateFontFamilyValue(value, path, acc)
      [] type = Str(S_fontWeight) -> validateFontWeightValue(value, path, acc)
      [] type = Str(S_duration) -> validateDurationValue(value, path, acc)
      [] type = Str(S_cubicBezier) -> validateCubicBezierValue(value, path, acc)
      [] type = Str(S_number) -> validateNumberValue(value, path, acc)
      [] type = Str(S_strokeStyle) -> validateStrokeStyleValue(value, path, acc)
      [] type = Str(S_border) -> validateBorderValue(value, path, acc)
      [] type = Str(S_transition) -> validateTransitionValue(value, path, acc)
      [] type = Str(S_shadow) -> validateShadowValue(value, path, acc)
      [] type = Str(S_gradient) -> validateGradientValue(value, path, acc)
      [] type = Str(S_typography) -> validateTypographyValue(value, path, acc)
      [] OTHER -> acc

\* line 539: let type = token.$type
declaredType(token) == Get(token, P_type)

\* lines 571-636: the checks on the type and the dispatch on it
validateTyped(type, value, path, acc) ==
    LET acc1 == IF Truthy(type) /\ ~includes(VALID_TOKEN_TYPES, type)
                THEN pushWarning(acc, Msg("Unknown $type \"${type}\" at ${path}", <<type, Str(path)>>))
                ELSE acc
    IN  IF ~Truthy(type)
        THEN pushError(acc1, Msg("Token at ${path} has no determinable type (no $type property or group type)",
                                 <<Str(path)>>))
        ELSE dispatch(type, value, path, acc1)

\* line 556: `${resolved.error} at ${path}`
errorAt(error, path) ==
    Msg(error.text \o " at ${path}", Append(error.args, Str(path)))

\* validateTokenValue without lines 561-563: the resolved value is validated
\* under the token's own $type only
validateTokenValueOwnType(token, path, acc, reg) ==
    LET type == declaredType(token)
        value == Get(token, P_value)
    IN  IF ~In(P_value, token)
        THEN pushError(acc, Msg("Token at ${path} is missing $value", <<Str(path)>>))
        ELSE IF isReference(value)
        THEN IF Truthy(reg)
             THEN LET resolved == resolveReference(extractReferencePath(value.s), reg, NewSet)
                  IN  IF "error" \in DOMAIN resolved
                      THEN pushError(acc, errorAt(resolved.error, path))
                      ELSE validateTyped(type, resolved.value, path, acc)
             ELSE acc
        ELSE validateTyped(type, value, path, acc)

\* validateTokenValue resolving a reference only when the token declares no
\* $type (line 549 as `if (!type && isReference(value))`)
validateTokenValueTypedUnresolved(token, path, acc, reg) ==
    LET type == declaredType(token)
        value == Get(token, P_value)
    IN  IF ~In(P_value, token)
        THEN pushError(acc, Msg("Token at ${path} is missing $value", <<Str(path)>>))
        ELSE IF ~Truthy(type) /\ isReference(value)
        THEN IF Truthy(reg)
             THEN LET resolved == resolveReference(extractReferencePath(value.s), reg, NewSet)
                  IN  IF "error" \in DOMAIN resolved
                      THEN pushError(acc, errorAt(resolved.error, path))
                      ELSE validateTyped(IF ~Truthy(type) THEN resolved.type ELSE type,
                                         resolved.value, path, acc)
             ELSE acc
        ELSE validateTyped(type, value, path, acc)

\* the paths that the references of the tokens registered before `path` name
RECURSIVE targetsBefore(_, _, _)
targetsBefore(reg, path, i) ==
    IF i > Len(reg.keys) \/ reg.keys[i] = path THEN NewSet
    ELSE LET rest == targetsBefore(reg, path, i + 1)
             value == reg.at[i].value
         IN  IF isReference(value) /\ MapHas(reg, extractReferencePath(value.s))
             THEN <<extractReferencePath(value.s)>>
                      \o SelectSeq(rest, LAMBDA p : p # extractReferencePath(value.s))
             ELSE rest

\* validateTokenValue with one visited set for the whole walk (line 503 with a
\* set kept between the calls): a resolution starts with the paths that the
\* references of earlier tokens visited first
validateTokenValueSharedVisited(token, path, acc, reg) ==
    LET type == declaredType(token)
        value == Get(token, P_value)
    IN  IF ~In(P_value, token)
        THEN pushError(acc, Msg("Token at ${path} is missing $value", <<Str(path)>>))
        ELSE IF isReference(value)
        THEN IF Truthy(reg)
             THEN LET resolved == resolveReference(extractReferencePath(value.s), reg,
                                                   targetsBefore(reg, path, 1))
                  IN  IF "error" \in DOMAIN resolved
                      THEN pushError(acc, errorAt(resolved.error, path))
                      ELSE validateTyped(IF ~Truthy(type) THEN resolved.type ELSE type,
                                         resolved.value, path, acc)
             ELSE acc
        ELSE validateTyped(type, value, path, acc)

\* the resolver's errors for the references among the fields of an object value
RECURSIVE nestedReferenceErrors(_, _, _, _, _)
nestedReferenceErrors(value, i, path, acc, reg) ==
    IF value.k # "object" \/ i > Len(value.ents) THEN acc
    ELSE LET field == value.ents[i][2]
             resolved == resolveReference(extractReferencePath(field.s), reg, NewSet)
         IN  nestedReferenceErrors(value, i + 1, path,
                 IF isReference(field) /\ "error" \in DOMAIN resolved
                 THEN pushError(acc, errorAt(resolved.error, path))
                 ELSE acc,
                 reg)

\* validateTokenValue resolving the references in the fields of a composite
\* value as well
validateTokenValueNestedResolved(token, path, acc, reg) ==
    LET type == declaredType(token)
        value == Get(token, P_value)
    IN  IF ~In(P_value, token)
        THEN pushError(acc, Msg("Token at ${path} is missing $value", <<Str(path)>>))
        ELSE IF isReference(value)
        THEN IF Truthy(reg)
             THEN LET resolved == resolveReference(extractReferencePath(value.s), reg, NewSet)
                  IN  IF "error" \in DOMAIN resolved
                      THEN pushError(acc, errorAt(resolved.error, path))
                      ELSE validateTyped(IF ~Truthy(type) THEN resolved.type ELSE type,
                                         resolved.value, path, acc)
             ELSE acc
        ELSE validateTyped(type, value, path, nestedReferenceErrors(value, 1, path, acc, reg))

\* validateTokenValue without the `return` of line 557: after the resolver's
\* error the reference itself is validated under the token's type
validateTokenValueNoReturn(token, path, acc, reg) ==
    LET type == declaredType(token)
        value == Get(token, P_value)
    IN  IF ~In(P_value, token)
        THEN pushError(acc, Msg("Token at ${path} is missing $value", <<Str(path)>>))
        ELSE IF isReference(value)
        THEN IF Truthy(reg)
             THEN LET resolved == resolveReference(extractReferencePath(value.s), reg, NewSet)
                  IN  IF "error" \in DOMAIN resolved
                      THEN validateTyped(type, value, path,
                                         pushError(acc, errorAt(resolved.error, path)))
                      ELSE validateTyped(IF ~Truthy(type) THEN resolved.type ELSE type,
                                         resolved.value, path, acc)
             ELSE acc
        ELSE validateTyped(type, value, path, acc)

\* validateTokenValue taking the resolved type whatever the token declares
\* (line 561 without its condition: `type = resolved.type`)
validateTokenValueResolvedType(token, path, acc, reg) ==
    LET type == declaredType(token)
        value == Get(token, P_value)
    IN  IF ~In(P_value, token)
        THEN pushError(acc, Msg("Token at ${path} is missing $value", <<Str(path)>>))
        ELSE IF isReference(value)
        THEN IF Truthy(reg)
             THEN LET resolved == resolveReference(extractReferencePath(value.s), reg, NewSet)
                  IN  IF "error" \in DOMAIN resolved
                      THEN pushError(acc, errorAt(resolved.error, path))
                      ELSE validateTyped(resolved.type, resolved.value, path, acc)
             ELSE acc
        ELSE validateTyped(type, value, path, acc)

\* lines 538-637
validateTokenValue(token, path, acc, reg) ==
    LET type == declaredType(token)
        value == Get(token, P_value)
    IN  IF ~In(P_value, token)
        THEN pushError(acc, Msg("Token at ${path} is missing $value", <<Str(path)>>))
        ELSE IF isReference(value)
        THEN IF Truthy(reg)
             THEN LET resolved == resolveReference(extractReferencePath(value.s), reg, NewSet)
                  IN  IF "error" \in DOMAIN resolved
                      THEN pushError(acc, errorAt(resolved.error, path))
                      ELSE validateTyped(IF ~Truthy(type) THEN resolved.type ELSE type,
                                         resolved.value, path, acc)
             ELSE acc
        ELSE validateTyped(type, value, path, acc)

\* line 661 without the filter: Object.keys(value).length === 0
hasNoKeys(value) == Len(ObjectKeys(value)) = 0

\* line 661: Object.keys(value).filter(k => !k.startsWith('$')).length === 0
hasNoChildren(value) ==
    \A i \in 1..Len(ObjectKeys(value)) : startsWithDollar(ObjectKeys(value)[i])

\* validateToken leaving a key with invalid characters after its naming error
\* (a `continue` after line 653): the node under the key is not validated
RECURSIVE validateTokenFromSkipNamed(_, _, _, _, _, _, _)
validateTokenFromSkipNamed(obj, i, path, acc, reg, parentType, at) ==
    IF i > Len(ObjectEntries(obj)) THEN acc
    ELSE
        LET key == ObjectEntries(obj)[i][1]
            value == ObjectEntries(obj)[i][2]
            currentPath == joinPath(path, key)
            here == [keys |-> Append(at, key), path |-> currentPath]
            acc1 == Tag(IF hasInvalidCharacters(key)
                        THEN pushError(acc, Msg("Token name \"${key}\" at ${currentPath} contains invalid characters ({, }, ., or \")",
                                                <<Str(key), Str(currentPath)>>))
                        ELSE acc,
                        here)
        IN  IF startsWithDollar(key)
            THEN validateTokenFromSkipNamed(obj, i + 1, path, acc, reg, parentType, at)
            ELSE IF hasInvalidCharacters(key)
            THEN validateTokenFromSkipNamed(obj, i + 1, path, acc1, reg, parentType, at)
            ELSE IF Truthy(value) /\ typeof(value) = "object"
            THEN IF In(P_value, value)
                 THEN validateTokenFromSkipNamed(obj, i + 1, path,
                          Tag(validateTokenValue(value, currentPath, acc1, reg), here),
                          reg, parentType, at)
                 ELSE IF In(P_type, value) /\ hasNoChildren(value)
                 THEN validateTokenFromSkipNamed(obj, i + 1, path,
                          Tag(pushError(acc1, Msg("Token at ${currentPath} is missing $value", <<Str(currentPath)>>)),
                              here),
                          reg, parentType, at)
                 ELSE validateTokenFromSkipNamed(obj, i + 1, path,
                          validateTokenFromSkipNamed(value, 1, currentPath, acc1, reg,
                                                     Or(Get(value, P_type), parentType), here.keys),
                          reg, parentType, at)
            ELSE validateTokenFromSkipNamed(obj, i + 1, path, acc1, reg, parentType, at)

\* validateToken leaving its loop as soon as an error has been pushed (a
\* `if (errors.length > 0) return` at the head of the loop body)
RECURSIVE validateTokenFromStopAtError(_, _, _, _, _, _, _)
validateTokenFromStopAtError(obj, i, path, acc, reg, parentType, at) ==
    IF i > Len(ObjectEntries(obj)) \/ Len(acc.errors) > 0 THEN acc
    ELSE
        LET key == ObjectEntries(obj)[i][1]
            value == ObjectEntries(obj)[i][2]
            currentPath == joinPath(path, key)
            here == [keys |-> Append(at, key), path |-> currentPath]
            acc1 == Tag(IF hasInvalidCharacters(key)
                        THEN pushError(acc, Msg("Token name \"${key}\" at ${currentPath} contains invalid characters ({, }, ., or \")",
                                                <<Str(key), Str(currentPath)>>))
                        ELSE acc,
                        here)
        IN  IF startsWithDollar(key)
            THEN validateTokenFromStopAtError(obj, i + 1, path, acc, reg, parentType, at)
            ELSE IF Truthy(value) /\ typeof(value) = "object"
            THEN IF In(P_value, value)
                 THEN validateTokenFromStopAtError(obj, i + 1, path,
                          Tag(validateTokenValue(value, currentPath, acc1, reg), here),
                          reg, parentType, at)
                 ELSE IF In(P_type, value) /\ hasNoChildren(value)
                 THEN validateTokenFromStopAtError(obj, i + 1, path,
                          Tag(pushError(acc1, Msg("Token at ${currentPath} is missing $value", <<Str(currentPath)>>)),
                              here),
                          reg, parentType, at)
                 ELSE validateTokenFromStopAtError(obj, i + 1, path,
                          validateTokenFromStopAtError(value, 1, currentPath, acc1, reg,
                                            Or(Get(value, P_type), parentType), here.keys),
                          reg, parentType, at)
            ELSE validateTokenFromStopAtError(obj, i + 1, path, acc1, reg, parentType, at)

\* lines 642-671; `i` is the position of the for-of loop in Object.entries(obj),
\* `at` the keys that lead from the root to obj (history)
RECURSIVE validateTokenFrom(_, _, _, _, _, _, _)
validateTokenFrom(obj, i, path, acc, reg, parentType, at) ==
    IF i > Len(ObjectEntries(obj)) THEN acc
    ELSE
        LET key == ObjectEntries(obj)[i][1]
            value == ObjectEntries(obj)[i][2]
            currentPath == joinPath(path, key)
            here == [keys |-> Append(at, key), path |-> currentPath]
            acc1 == Tag(IF hasInvalidCharacters(key)
                        THEN pushError(acc, Msg("Token name \"${key}\" at ${currentPath} contains invalid characters ({, }, ., or \")",
                                                <<Str(key), Str(currentPath)>>))
                        ELSE acc,
                        here)
        IN  IF startsWithDollar(key)
            THEN validateTokenFrom(obj, i + 1, path, acc, reg, parentType, at)
            ELSE IF Truthy(value) /\ typeof(value) = "object"
            THEN IF In(P_value, value)
                 THEN validateTokenFrom(obj, i + 1, path,
                          Tag(validateTokenValue(value, currentPath, acc1, reg), here),
                          reg, parentType, at)
                 ELSE IF In(P_type, value) /\ hasNoChildren(value)
                 THEN validateTokenFrom(obj, i + 1, path,
                          Tag(pushError(acc1, Msg("Token at ${currentPath} is missing $value", <<Str(currentPath)>>)),
                              here),
                          reg, parentType, at)
                 ELSE validateTokenFrom(obj, i + 1, path,
                          validateTokenFrom(value, 1, currentPath, acc1, reg,
                                            Or(Get(value, P_type), parentType), here.keys),
                          reg, parentType, at)
            ELSE validateTokenFrom(obj, i + 1, path, acc1, reg, parentType, at)

validateToken(obj, path, acc, reg, parentType) ==
    validateTokenFrom(obj, 1, path, acc, reg, parentType, <<>>)

\* countTokens taking every node with $value or $type for a token (line 680 as
\* `if ('$value' in value || '$type' in value)`)
RECURSIVE countTokensFromTyped(_, _, _)
countTokensFromTyped(obj, i, count) ==
    IF i > Len(ObjectEntries(obj)) THEN count
    ELSE
        LET key == ObjectEntries(obj)[i][1]
            value == ObjectEntries(obj)[i][2]
        IN  IF startsWithDollar(key)
            THEN countTokensFromTyped(obj, i + 1, count)
            ELSE IF Truthy(value) /\ typeof(value) = "object"
            THEN IF In(P_value, value) \/ In(P_type, value)
                 THEN countTokensFromTyped(obj, i + 1, count + 1)
                 ELSE countTokensFromTyped(obj, i + 1, countTokensFromTyped(value, 1, count))
            ELSE countTokensFromTyped(obj, i + 1, count)

\* lines 676-688; `i` is the position of the for-of loop in Object.entries(obj)
RECURSIVE countTokensFrom(_, _, _)
countTokensFrom(obj, i, count) ==
    IF i > Len(ObjectEntries(obj)) THEN count
    ELSE
        LET key == ObjectEntries(obj)[i][1]
            value == ObjectEntries(obj)[i][2]
        IN  IF startsWithDollar(key)
            THEN countTokensFrom(obj, i + 1, count)
            ELSE IF Truthy(value) /\ typeof(value) = "object"
            THEN IF In(P_value, value)
                 THEN countTokensFrom(obj, i + 1, count + 1)
                 ELSE countTokensFrom(obj, i + 1, countTokensFrom(value, 1, count))
            ELSE countTokensFrom(obj, i + 1, count)

countTokens(obj, count) == countTokensFrom(obj, 1, count)

-----------------------------------------------------------------------------
(* Entry points *)

\* jsonString.trim()
trim(str) == [str EXCEPT !.padded = FALSE]

\* JSON.parse(jsonString): the value, or the SyntaxError thrown
JSONparseText(str) ==
    CASE str.body.b = "json" -> [returns |-> JSONparse(str.body.writes)]
      [] str.body.b = "malformed" -> [throws |-> str.body.message]
      [] OTHER -> [throws |-> Str(<<"Unexpected end of JSON input">>)]

\* errors and warnings kept at module level: a call pushes onto the arrays the
\* call before it left
KeptErrors ==
    [errors |-> errors, warnings |-> warnings,
     errorsAt |-> producedAt.errors, warningsAt |-> producedAt.warnings]

\* lines 700-701 and 736-737: const errors = []; const warnings = []
NewErrors == NewAcc

\* line 474: the default value of the parameter `registry`
NewRegistry == NewMap

\* what a call leaves behind: the value returned, its locals and the calls made
Outcome(ret, toks, reg, acc, made) ==
    [ret |-> ret, tokens |-> toks, registry |-> reg, acc |-> acc, steps |-> made]

EarlyReturn(message, toks, acc, made) ==
    Outcome([valid |-> FALSE, errors |-> <<message>>], toks, Undefined, acc, made)

\* lines 708-719 with valid: errors.length === 0 && warnings.length === 0
validateRootNoWarnings(toks, made) ==
    LET reg == buildTokenRegistry(toks, <<>>, NewRegistry, Null)
        acc == validateToken(toks, <<>>, NewErrors, reg, Null)
    IN  Outcome([valid |-> Len(acc.errors) = 0 /\ Len(acc.warnings) = 0,
                 errors |-> acc.errors,
                 warnings |-> acc.warnings,
                 tokenCount |-> countTokens(toks, 0)],
                toks, reg, acc,
                made \o <<"buildTokenRegistry", "validateToken", "countTokens">>)

\* validateRoot with a resolver that stores what it resolved: at the end of the
\* call each reference token of the registry that resolves holds the resolved
\* value in place of its reference
validateRootCachingResolved(toks, made) ==
    LET reg == buildTokenRegistry(toks, <<>>, NewRegistry, Null)
        acc == validateToken(toks, <<>>, NewErrors, reg, Null)
        resolved(r) == resolveReference(extractReferencePath(r.value.s), reg, NewSet)
        cached == [reg EXCEPT !.at =
                      [i \in 1..Len(reg.keys) |->
                          IF isReference(reg.at[i].value) /\ "value" \in DOMAIN resolved(reg.at[i])
                          THEN [reg.at[i] EXCEPT !.value = resolved(reg.at[i]).value]
                          ELSE reg.at[i]]]
    IN  Outcome([valid |-> Len(acc.errors) = 0,
                 errors |-> acc.errors,
                 warnings |-> acc.warnings,
                 tokenCount |-> countTokens(toks, 0)],
                toks, cached, acc,
                made \o <<"buildTokenRegistry", "validateToken", "countTokens">>)

\* lines 708-719 and 744-755
validateRoot(toks, made) ==
    LET reg == buildTokenRegistry(toks, <<>>, NewRegistry, Null)
        acc == validateToken(toks, <<>>, NewErrors, reg, Null)
    IN  Outcome([valid |-> Len(acc.errors) = 0,
                 errors |-> acc.errors,
                 warnings |-> acc.warnings,
                 tokenCount |-> countTokens(toks, 0)],
                toks, reg, acc,
                made \o <<"buildTokenRegistry", "validateToken", "countTokens">>)

\* validateTokens with line 694 lacking `|| !jsonString.trim()`: white space
\* goes to JSON.parse
validateTokensUntrimmed(jsonString) ==
    IF ~Truthy(jsonString) \/ typeof(jsonString) # "string"
    THEN EarlyReturn(Msg("Input is empty", <<>>), Undefined, NewAcc, <<>>)
    ELSE
        LET parsed == JSONparseText(jsonString)
        IN  IF "throws" \in DOMAIN parsed
            THEN EarlyReturn(Msg("Invalid JSON: ${error.message}", <<parsed.throws>>),
                             Undefined, NewAcc, <<"JSON.parse">>)
            ELSE IF typeof(parsed.returns) # "object" \/ parsed.returns = Null
                    \/ isArray(parsed.returns)
            THEN EarlyReturn(Msg("Root must be an object", <<>>), parsed.returns,
                             NewErrors, <<"JSON.parse">>)
            ELSE validateRoot(parsed.returns, <<"JSON.parse">>)

\* lines 693-726
validateTokens(jsonString) ==
    IF ~Truthy(jsonString) \/ typeof(jsonString) # "string" \/ ~Truthy(trim(jsonString))
    THEN EarlyReturn(Msg("Input is empty", <<>>), Undefined, NewAcc, <<>>)
    ELSE
        LET parsed == JSONparseText(jsonString)
        IN  IF "throws" \in DOMAIN parsed
            THEN EarlyReturn(Msg("Invalid JSON: ${error.message}", <<parsed.throws>>),
                             Undefined, NewAcc, <<"JSON.parse">>)
            ELSE IF typeof(parsed.returns) # "object" \/ parsed.returns = Null
                    \/ isArray(parsed.returns)
            THEN EarlyReturn(Msg("Root must be an object", <<>>), parsed.returns,
                             NewErrors, <<"JSON.parse">>)
            ELSE validateRoot(parsed.returns, <<"JSON.parse">>)

\* validateTokensObject calling validateToken without the registry (line 748
\* as `validateToken(tokens, '', errors, warnings)`): references go unresolved
validateTokensObjectNoRegistry(toks) ==
    IF ~Truthy(toks)
    THEN EarlyReturn(Msg("Input is empty", <<>>), toks, NewAcc, <<>>)
    ELSE IF typeof(toks) # "object" \/ toks = Null \/ isArray(toks)
    THEN EarlyReturn(Msg("Root must be an object", <<>>), toks, NewErrors, <<>>)
    ELSE LET acc == validateToken(toks, <<>>, NewErrors, Null, Null)
         IN  Outcome([valid |-> Len(acc.errors) = 0,
                      errors |-> acc.errors,
                      warnings |-> acc.warnings,
                      tokenCount |-> countTokens(toks, 0)],
                     toks, buildTokenRegistry(toks, <<>>, NewRegistry, Null), acc,
                     <<"buildTokenRegistry", "validateToken", "countTokens">>)

\* lines 731-756
validateTokensObject(toks) ==
    IF ~Truthy(toks)
    THEN EarlyReturn(Msg("Input is empty", <<>>), toks, NewAcc, <<>>)
    ELSE IF typeof(toks) # "object" \/ toks = Null \/ isArray(toks)
    THEN EarlyReturn(Msg("Root must be an object", <<>>), toks, NewErrors, <<>>)
    ELSE validateRoot(toks, <<>>)

-----------------------------------------------------------------------------
(* The documents and arguments the model validates *)

MaxRefTokens == 3
MaxDepth == 2
MaxCalls == 3

Letters == <<"a", "b", "c", "d", "e">>

K_a == <<"a">>
K_g == <<"g">>
K_one == <<"1">>
K_dotted == <<"x", ".", "y">>
K_meta == <<"$", "m">>

V_8px == Str(<<"8", "p", "x">>)
V_8em == Str(<<"8", "e", "m">>)

\* a token node: { "$type": type, "$value": value }, without $type if undefined
Token(type, value) ==
    Obj(IF type = Undefined THEN << <<P_value, value>> >>
        ELSE << <<P_type, type>>, <<P_value, value>> >>)

\* a group node with one child: { "$type": type, key: node }
Group(type, key, node) ==
    Obj(IF type = Undefined THEN << <<key, node>> >>
        ELSE << <<P_type, type>>, <<key, node>> >>)

\* "{path}"
Ref(path) == Str(<<"{">> \o path \o <<"}">>)

\* Reference documents: { "g": { "a": t1, "b": t2, ... } } with MaxRefTokens
\* tokens: a token of $type "dimension" whose value is a valid or an invalid
\* dimension, or a reference to the first token; or a token without $type whose
\* value is an invalid dimension, a reference to one of the tokens (itself
\* included) or to a path that does not exist
RefPath(i) == K_g \o <<".">> \o <<Letters[i]>>

RefTokens ==
    {Token(Str(S_dimension), v) : v \in {V_8px, V_8em, Ref(RefPath(1))}}
        \cup {Token(Undefined, v) :
                 v \in {V_8em, Ref(K_g \o <<".", "z">>)}
                          \cup {Ref(RefPath(i)) : i \in 1..MaxRefTokens}}

RefDocs ==
    {Obj(<< <<K_g, Obj([i \in 1..MaxRefTokens |-> <<<<Letters[i]>>, f[i]>>])>> >>) :
        f \in [1..MaxRefTokens -> RefTokens]}

\* Tree documents: { k1: n1, k2: n2 } with two different keys among a legal
\* key, an array index, a key with a period and a metadata key; n1 a leaf or
\* groups nested up to MaxDepth; n2 one of four leaves.  The leaves are tokens
\* that produce an error, a warning or nothing, a token that refers to the path
\* "a" (a token, a group or nothing, as the document has it), a node with $type
\* only, an empty object and a number.
Leaves ==
    {Token(Str(S_dimension), V_8em), Token(Str(S_dimension), V_8px),
     Token(Str(S_color), V_8px), Token(Undefined, V_8px), Token(Undefined, Ref(K_a)),
     Obj(<< <<P_type, Str(S_dimension)>> >>), Obj(<<>>), Num(5000)}

SecondLeaves ==
    {Token(Str(S_dimension), V_8em), Token(Str(S_color), V_8px),
     Token(Undefined, Ref(K_a)), Obj(<< <<P_type, Str(S_dimension)>> >>)}

GroupTypes == {Undefined, Str(S_dimension)}

RECURSIVE TreeNodes(_)
TreeNodes(d) ==
    IF d = 0 THEN Leaves
    ELSE Leaves \cup {Group(t, K_a, n) : t \in GroupTypes, n \in TreeNodes(d - 1)}

TreeKeys == {K_a, K_one, K_dotted, K_meta}

TreeDocs ==
    {Obj(<< <<k1, n1>>, <<k2, n2>> >>) :
        k1 \in TreeKeys, k2 \in TreeKeys, n1 \in TreeNodes(MaxDepth), n2 \in SecondLeaves}

\* Documents of the tests and of the examples
\* dtcgValidator.test.js 1744-1758
GroupTypeDoc ==
    Obj(<<<<<<"c", "o", "l", "o", "r">>, Obj(<<<<<<"$", "t", "y", "p", "e">>, Str(<<"c", "o", "l", "o", "r">>)>>,
              <<<<"b", "a", "s", "e">>, Obj(<<<<<<"$", "v", "a", "l", "u", "e">>, Str(<<"#", "f", "f", "0", "0", "0", "0">>)>>>>)>>,
              <<<<"p", "r", "i", "m", "a", "r", "y">>, Obj(<<<<<<"$", "v", "a", "l", "u", "e">>, Str(<<"{", "c", "o", "l", "o", "r", ".", "b", "a", "s", "e", "}">>)>>>>)>>>>)>>>>)

\* dtcgValidator.test.js 1635-1652
ChainDoc ==
    Obj(<<<<<<"d", "i", "m", "e", "n", "s", "i", "o", "n">>, Obj(<<<<<<"b", "a", "s", "e">>, Obj(<<<<<<"$", "t", "y", "p", "e">>, Str(<<"d", "i", "m", "e", "n", "s", "i", "o", "n">>)>>,
                  <<<<"$", "v", "a", "l", "u", "e">>, Obj(<<<<<<"v", "a", "l", "u", "e">>, Num(16000)>>,
                      <<<<"u", "n", "i", "t">>, Str(<<"p", "x">>)>>>>)>>>>)>>,
              <<<<"a", "l", "i", "a", "s", "1">>, Obj(<<<<<<"$", "v", "a", "l", "u", "e">>, Str(<<"{", "d", "i", "m", "e", "n", "s", "i", "o", "n", ".", "b", "a", "s", "e", "}">>)>>>>)>>,
              <<<<"a", "l", "i", "a", "s", "2">>, Obj(<<<<<<"$", "v", "a", "l", "u", "e">>, Str(<<"{", "d", "i", "m", "e", "n", "s", "i", "o", "n", ".", "a", "l", "i", "a", "s", "1", "}">>)>>>>)>>>>)>>>>)

\* dtcgValidator.test.js 1656-1672
CycleDoc ==
    Obj(<<<<<<"c", "o", "l", "o", "r">>, Obj(<<<<<<"a">>, Obj(<<<<<<"$", "t", "y", "p", "e">>, Str(<<"c", "o", "l", "o", "r">>)>>,
                  <<<<"$", "v", "a", "l", "u", "e">>, Str(<<"{", "c", "o", "l", "o", "r", ".", "b", "}">>)>>>>)>>,
              <<<<"b">>, Obj(<<<<<<"$", "t", "y", "p", "e">>, Str(<<"c", "o", "l", "o", "r">>)>>,
                  <<<<"$", "v", "a", "l", "u", "e">>, Str(<<"{", "c", "o", "l", "o", "r", ".", "a", "}">>)>>>>)>>>>)>>>>)

\* dtcgValidator.test.js 1404-1417
MissingValueDoc ==
    Obj(<<<<<<"c", "o", "l", "o", "r">>, Obj(<<<<<<"p", "r", "i", "m", "a", "r", "y">>, Obj(<<<<<<"$", "t", "y", "p", "e">>, Str(<<"c", "o", "l", "o", "r">>)>>>>)>>>>)>>>>)

\* a color scale whose steps are numbers, written in the order 500, 50
ScaleDoc ==
    Obj(<<<<<<"b", "l", "u", "e">>, Obj(<<<<<<"5", "0", "0">>, Obj(<<<<<<"$", "t", "y", "p", "e">>, Str(<<"d", "i", "m", "e", "n", "s", "i", "o", "n">>)>>,
                  <<<<"$", "v", "a", "l", "u", "e">>, Str(<<"8", "e", "m">>)>>>>)>>,
              <<<<"5", "0">>, Obj(<<<<<<"$", "t", "y", "p", "e">>, Str(<<"d", "i", "m", "e", "n", "s", "i", "o", "n">>)>>,
                  <<<<"$", "v", "a", "l", "u", "e">>, Str(<<"8", "e", "m">>)>>>>)>>>>)>>>>)

\* two erroneous tokens, the second under a numeric key
OrderDoc ==
    Obj(<<<<<<"b">>, Obj(<<<<<<"$", "t", "y", "p", "e">>, Str(<<"d", "i", "m", "e", "n", "s", "i", "o", "n">>)>>,
              <<<<"$", "v", "a", "l", "u", "e">>, Str(<<"8", "e", "m">>)>>>>)>>,
          <<<<"1">>, Obj(<<<<<<"$", "t", "y", "p", "e">>, Str(<<"d", "i", "m", "e", "n", "s", "i", "o", "n">>)>>,
              <<<<"$", "v", "a", "l", "u", "e">>, Str(<<"8", "e", "m">>)>>>>)>>>>)

\* a reference to a group, reached through another reference:
\* { "g": { "a": dimension 8px }, "p": { "$value": "{g}" }, "q": { "$value": "{p}" } }
K_p == <<"p">>
K_q == <<"q">>

GroupRefDoc ==
    Obj(<< <<K_g, Obj(<< <<K_a, Token(Str(S_dimension), V_8px)>> >>)>>,
           <<K_p, Token(Undefined, Ref(K_g))>>,
           <<K_q, Token(Undefined, Ref(K_p))>> >>)

\* keys with illegal characters at two depths:
\* { "x.y": { "p{q": dimension 8em }, "a": { "b\"c": {} } }
DeepKeysDoc ==
    Obj(<< <<K_dotted, Obj(<< <<<<"p", "{", "q">>, Token(Str(S_dimension), V_8em)>> >>)>>,
           <<K_a, Obj(<< <<<<"b", "\"", "c">>, Obj(<<>>)>> >>)>> >>)

\* dtcgValidator.test.js 1832-1843:
\* { "color": { "broken": { "$type": "color", "$value": "{}" } } }
V_emptyRef == Str(<<"{", "}">>)

EmptyRefDoc ==
    Obj(<< <<S_color, Obj(<< <<<<"b", "r", "o", "k", "e", "n">>,
                               Token(Str(S_color), V_emptyRef)>> >>)>> >>)

\* two tokens that refer to each other, each with or without a $type
TwoCycleDocs ==
    {Obj(<< <<K_g, Obj(<< <<<<Letters[1]>>, Token(t1, Ref(RefPath(2)))>>,
                          <<<<Letters[2]>>, Token(t2, Ref(RefPath(1)))>> >>)>> >>) :
        t1 \in {Undefined, Str(S_color), Str(S_dimension)},
        t2 \in {Undefined, Str(S_color), Str(S_dimension)}}

\* a token of a known, an unknown or no $type whose reference fails, to itself
\* or to a path that does not exist, followed by a token with an invalid value
FailingRefDocs ==
    {Obj(<< <<K_g, Obj(<< <<<<Letters[1]>>, Token(T, Ref(x))>>,
                          <<<<Letters[2]>>, Token(Str(S_dimension), V_8em)>> >>)>> >>) :
        T \in {Undefined, Str(<<"f", "o", "o">>), Str(S_color), Str(S_dimension)},
        x \in {RefPath(1), K_g \o <<".", "z">>}}

K_o == <<"o">>
K_i == <<"i">>
K_r == <<"r">>

\* { "o": { "$type": T1, "i": { "$type": T2, "a": token } }, "r": reference }:
\* a token with or without $type in a group in a group, each with or without
\* $type, and a token without $type that refers to it
NestedTypeDocs ==
    {Obj(<< <<K_o, Group(T1, K_i, Group(T2, K_a, Token(T3, v)))>>,
            <<K_r, Token(Undefined, Ref(K_o \o <<".">> \o K_i \o <<".">> \o K_a))>> >>) :
        T1 \in {Undefined, Str(S_color), Str(S_dimension)},
        T2 \in {Undefined, Str(S_color), Str(S_dimension)},
        T3 \in {Undefined, Str(S_color), Str(S_dimension)},
        v \in {V_8px, Str(<<"#", "f", "f", "0", "0", "0", "0">>)}}

K_empty == <<>>

\* { "": { "a": token }, "a": token }: the key "" adds nothing to the path
EmptyKeyDoc ==
    Obj(<< <<K_empty, Obj(<< <<K_a, Token(Str(S_dimension), V_8px)>> >>)>>,
           <<K_a, Token(Str(S_dimension), V_8px)>> >>)

\* { "x.y": token, "x": { "y": token } }: a key with a period
DottedKeyDoc ==
    Obj(<< <<<<"x", ".", "y">>, Token(Str(S_dimension), V_8px)>>,
           <<<<"x">>, Obj(<< <<<<"y">>, Token(Str(S_dimension), V_8px)>> >>)>> >>)

ScenarioDocs ==
    {GroupTypeDoc, ChainDoc, CycleDoc, MissingValueDoc, ScaleDoc, OrderDoc, GroupRefDoc,
     DeepKeysDoc, EmptyRefDoc} \cup TwoCycleDocs \cup FailingRefDocs \cup NestedTypeDocs
        \cup {EmptyKeyDoc, DottedKeyDoc}

DistinctTreeDocs == {d \in TreeDocs : d.ents[1][1] # d.ents[2][1]}

Docs == {Obj(<<>>)} \cup ScenarioDocs \cup RefDocs \cup DistinctTreeDocs

\* JSON texts whose root is no object
NonObjectRoots == {Arr(<<>>), Arr(<<Obj(<<>>)>>), Null, Num(5000), Str(<<"a">>), Bool(TRUE)}

\* the messages of the SyntaxErrors in the model
SyntaxErrors == {Str(<<"Unexpected token i in JSON at position 1">>)}

Texts ==
    {Text(p, EmptyBody) : p \in BOOLEAN}
        \cup {Text(p, MalformedBody(m)) : p \in BOOLEAN, m \in SyntaxErrors}
        \cup {Text(p, JSONBody(v)) : p \in BOOLEAN, v \in NonObjectRoots}
        \cup {Text(FALSE, JSONBody(d)) : d \in Docs}

\* arguments of validateTokens that are no strings
NonStrings == {Undefined, Null, Num(0), Num(5000), Bool(FALSE), Obj(<<>>)}

\* arguments of validateTokensObject that are no objects
NonObjects ==
    {Undefined, Null, Num(0), Num(5000), Bool(FALSE), Bool(TRUE), Str(<<>>), Str(<<"a">>),
     Arr(<<>>)}

Call(fn, arg) == [fn |-> fn, arg |-> arg]

Inputs ==
    {Call("validateTokens", j) : j \in Texts \cup NonStrings}
        \cup {Call("validateTokensObject", t) : t \in NonObjects}
        \cup {Call("validateTokensObject", JSONparse(d)) :
                 d \in {Obj(<<>>)} \cup ScenarioDocs \cup DistinctTreeDocs}

-----------------------------------------------------------------------------
(* Actions *)

NoSaved == [set |-> FALSE]

Return(out) ==
    /\ pc' = "done"
    /\ tokens' = out.tokens
    /\ registry' = out.registry
    /\ errors' = out.acc.errors
    /\ warnings' = out.acc.warnings
    /\ producedAt' = [errors |-> out.acc.errorsAt, warnings |-> out.acc.warningsAt]
    /\ steps' = out.steps
    /\ result' = out.ret
    /\ saved' = IF saved.set /\ saved.input # input
                THEN [saved EXCEPT !.between = @ + 1]
                ELSE saved
    /\ UNCHANGED <<calls, input, curReferencePath, curVisitedPaths, invocations, resolution>>

\* a call of validateTokens(jsonString)
ValidateTokens ==
    /\ pc = "call"
    /\ input.fn = "validateTokens"
    /\ Return(validateTokens(input.arg))

\* a call of validateTokensObject(tokens)
ValidateTokensObject ==
    /\ pc = "call"
    /\ input.fn = "validateTokensObject"
    /\ Return(validateTokensObject(input.arg))

\* the caller prepares the next call; `remember` keeps the call that has just
\* returned, and its result, for comparison (history)
Submit(c, remember) ==
    /\ pc = "done"
    /\ calls < MaxCalls
    /\ pc' = "call"
    /\ calls' = calls + 1
    /\ input' = c
    /\ saved' = IF remember
                THEN [set |-> TRUE, input |-> input, result |-> result, between |-> 0]
                ELSE saved
    /\ UNCHANGED <<tokens, registry, errors, warnings, producedAt, steps, result>>
    /\ UNCHANGED <<curReferencePath, curVisitedPaths, invocations, resolution>>

InitWith(inputs) ==
    /\ pc = "call"
    /\ calls = 1
    /\ input \in inputs
    /\ tokens = Undefined
    /\ registry = Undefined
    /\ errors = <<>>
    /\ warnings = <<>>
    /\ producedAt = [errors |-> <<>>, warnings |-> <<>>]
    /\ steps = <<>>
    /\ result = Undefined
    /\ saved = NoSaved
    /\ curReferencePath = Undefined
    /\ curVisitedPaths = NewSet
    /\ invocations = 0
    /\ resolution = Undefined

\* one call, of any argument of the model
Init == InitWith(Inputs)

Next == ValidateTokens \/ ValidateTokensObject

Spec == Init /\ [][Next]_vars


\* Repeated calls: a few arguments, validated one after the other
K_b == <<"b">>

IdemDocs ==
    {Obj(<<>>), OrderDoc, GroupTypeDoc, CycleDoc,
     Obj(<< <<K_g, Obj(<< <<K_a, Token(Str(S_dimension), V_8px)>> >>)>> >>),
     Obj(<< <<K_g, Obj(<< <<K_b, Token(Undefined, Ref(K_g \o <<".", "a">>))>> >>)>> >>),
     Obj(<< <<K_a, Token(Str(S_color), V_8px)>> >>)}

IdemInputs ==
    {Call("validateTokens", Text(FALSE, JSONBody(d))) : d \in IdemDocs}
        \cup {Call("validateTokens", Text(TRUE, EmptyBody)), Call("validateTokens", Null)}
        \cup {Call("validateTokens", Text(FALSE, MalformedBody(m))) : m \in SyntaxErrors}
        \cup {Call("validateTokensObject", JSONparse(d)) : d \in {OrderDoc, GroupTypeDoc}}
        \cup {Call("validateTokensObject", Null)}

InitIdem == InitWith(IdemInputs)

NextIdem ==
    \/ ValidateTokens
    \/ ValidateTokensObject
    \/ \E c \in IdemInputs, remember \in BOOLEAN : Submit(c, remember)

SpecIdem == InitIdem /\ [][NextIdem]_vars

\* Resolution: one top-level call resolveReference(referencePath, registry),
\* invocation by invocation.  The registry is built from a document
\* { "g": { "a": t1, "b": t2, ... } } of MaxRefTokens tokens, each a dimension
\* or a reference to one of the tokens or to a path that does not exist; the
\* call starts at the path of a token, of the group or of nothing.
ChainTokens ==
    {Token(Str(S_dimension), V_8px), Token(Undefined, Ref(K_g \o <<".", "z">>))}
        \cup {Token(Undefined, Ref(RefPath(i))) : i \in 1..MaxRefTokens}

ChainDocs ==
    {Obj(<< <<K_g, Obj([i \in 1..MaxRefTokens |-> <<<<Letters[i]>>, f[i]>>])>> >>) :
        f \in [1..MaxRefTokens -> ChainTokens]}

StartPaths == {RefPath(i) : i \in 1..MaxRefTokens} \cup {K_g \o <<".", "z">>, K_g}

InitResolve ==
    /\ pc = "resolving"
    /\ calls = 1
    /\ tokens \in ChainDocs
    /\ registry = buildTokenRegistry(tokens, <<>>, NewRegistry, Null)
    /\ curReferencePath \in StartPaths
    /\ input = [fn |-> "resolveReference", arg |-> curReferencePath]
    /\ curVisitedPaths = NewSet
    /\ invocations = 1
    /\ resolution = Undefined
    /\ errors = <<>>
    /\ warnings = <<>>
    /\ producedAt = [errors |-> <<>>, warnings |-> <<>>]
    /\ steps = <<>>
    /\ result = Undefined
    /\ saved = NoSaved

\* the top-level call returns `out`
ResolveReturn(out) ==
    /\ pc' = "resolved"
    /\ resolution' = out
    /\ UNCHANGED <<calls, input, tokens, registry, errors, warnings, producedAt, steps, result,
                   saved, curReferencePath, invocations>>

\* lines 505-509: the path has been visited
ResolveCircular ==
    /\ pc = "resolving"
    /\ SetHas(curVisitedPaths, curReferencePath)
    /\ ResolveReturn([error |-> circularMessage(curVisitedPaths, curReferencePath)])
    /\ UNCHANGED curVisitedPaths

\* lines 512-517: the registry has no token at the path
ResolveMissing ==
    /\ pc = "resolving"
    /\ ~SetHas(curVisitedPaths, curReferencePath)
    /\ ~Truthy(MapGet(registry, curReferencePath))
    /\ ResolveReturn([error |-> nonExistentMessage(curReferencePath)])
    /\ UNCHANGED curVisitedPaths

\* ResolveRecurse without line 520: the path is not marked as visited
ResolveRecurseUnmarked ==
    /\ pc = "resolving"
    /\ invocations <= Len(registry.keys) + 1
    /\ ~SetHas(curVisitedPaths, curReferencePath)
    /\ Truthy(MapGet(registry, curReferencePath))
    /\ isReference(MapGet(registry, curReferencePath).value)
    /\ curReferencePath' = extractReferencePath(MapGet(registry, curReferencePath).value.s)
    /\ invocations' = invocations + 1
    /\ UNCHANGED <<pc, calls, input, tokens, registry, errors, warnings, producedAt, steps,
                   result, saved, resolution, curVisitedPaths>>

\* lines 520-525: the token's value is a reference; the path is marked as
\* visited and resolveReference is invoked with the path it refers to
ResolveRecurse ==
    /\ pc = "resolving"
    /\ ~SetHas(curVisitedPaths, curReferencePath)
    /\ Truthy(MapGet(registry, curReferencePath))
    /\ isReference(MapGet(registry, curReferencePath).value)
    /\ curVisitedPaths' = SetAdd(curVisitedPaths, curReferencePath)
    /\ curReferencePath' = extractReferencePath(MapGet(registry, curReferencePath).value.s)
    /\ invocations' = invocations + 1
    /\ UNCHANGED <<pc, calls, input, tokens, registry, errors, warnings, producedAt, steps,
                   result, saved, resolution>>

\* lines 520 and 528-532: the token's value is no reference
ResolveValue ==
    /\ pc = "resolving"
    /\ ~SetHas(curVisitedPaths, curReferencePath)
    /\ Truthy(MapGet(registry, curReferencePath))
    /\ ~isReference(MapGet(registry, curReferencePath).value)
    /\ curVisitedPaths' = SetAdd(curVisitedPaths, curReferencePath)
    /\ ResolveReturn([value |-> MapGet(registry, curReferencePath).value,
                      type |-> MapGet(registry, curReferencePath).type])

NextResolve == ResolveCircular \/ ResolveMissing \/ ResolveRecurse \/ ResolveValue

\* the invocations of one call follow each other without waiting for anything
SpecResolve == InitResolve /\ [][NextResolve]_vars /\ WF_vars(NextResolve)

\* Values: documents { "t": { "$type": type, "$value": value } } that put one
\* value before one validator
MaxComponents == 4
MaxFamilies == 2

K_t == <<"t">>
K_u == <<"u">>

ValueDoc(type, value) == Obj(<< <<K_t, Token(type, value)>> >>)

\* the sequences of at most n elements of S
SeqsUpTo(S, n) == UNION {[1..k -> S] : k \in 0..n}

\* $type strings that are none of VALID_TOKEN_TYPES
UnknownTypes ==
    {Str(<<"f", "o", "o">>), Str(<<"C", "o", "l", "o", "r">>), Str(<<" ">>), Str(<<>>)}

PlainValues == {V_8px, V_8em, V_emptyRef, Num(5000), Obj(<<>>)}

\* tokens of unknown $type; and a token without $type that refers to one
UnknownTypeDocs ==
    {ValueDoc(t, v) : t \in UnknownTypes, v \in PlainValues}
        \cup {Obj(<< <<K_t, Token(Undefined, Ref(K_u))>>, <<K_u, Token(t, V_8em)>> >>) :
                 t \in UnknownTypes}

\* a color object: { "colorSpace": space, "components": [...] } and more members
ColorObject(space, components, more) ==
    Obj(<< <<S_colorSpace, Str(space)>>, <<S_components, Arr(components)>> >> \o more)

ColorSpaceNames == {COLOR_SPACES[i].name : i \in 1..Len(COLOR_SPACES)}

\* color objects whose components are 0 to MaxComponents values, valid or not,
\* with or without an alpha that is out of range
ColorLengthDocs ==
    {ValueDoc(Str(S_color), ColorObject(s, c, more)) :
        s \in ColorSpaceNames,
        c \in SeqsUpTo({Num(0), Num(400 * 1000), Str(<<"x">>)}, MaxComponents),
        more \in {<<>>, << <<S_alpha, Num(2 * 1000)>> >>}}

\* numbers at and around the ends of the ranges: -0.001, 0, 0.5, 1, 1.001, 100,
\* 100.001, 359.999, 360, 360.001, a million and minus a million; and "none"
RangeProbes ==
    {Num(-1), Num(0), Num(500), Num(1 * 1000), Num(1001), Num(100 * 1000), Num(100001),
     Num(359999), Num(360 * 1000), Num(360001), Num(1000000 * 1000), Num(-1000000 * 1000),
     Str(<<"n", "o", "n", "e">>)}

\* color objects of each space with one component probed, the others 0
ColorRangeDocs ==
    {ValueDoc(Str(S_color),
              ColorObject(COLOR_SPACES[i].name,
                          [j \in 1..COLOR_SPACES[i].components |-> IF j = idx THEN v ELSE Num(0)],
                          <<>>)) :
        i \in 1..Len(COLOR_SPACES), idx \in 1..Len(COLOR_SPACES[1].ranges), v \in RangeProbes}

\* values of fontFamily tokens: strings, values of other kinds, and arrays of
\* at most MaxFamilies elements, strings or not
FontFamilyValues ==
    {Str(<<"A", "r", "i", "a", "l">>), Str(<<>>), Str(<<"{", "i", "n", "c">>), Num(5000),
     Bool(TRUE), Null, Obj(<<>>)}
        \cup {Arr(s) : s \in SeqsUpTo({Str(<<"A", "r", "i", "a", "l">>), Str(<<>>), Num(5000),
                                       Null, Arr(<<>>)}, MaxFamilies)}

FontFamilyDocs == {ValueDoc(Str(S_fontFamily), v) : v \in FontFamilyValues}

\* what a field of a composite value may hold: falsy values, truthy values
FieldValues ==
    {Num(0), Str(<<>>), Bool(FALSE), Null, Num(1000), Obj(<<>>),
     Str(<<"s", "o", "l", "i", "d">>)}

\* the objects with some of the given keys, in their order, each with one of
\* the given values
RECURSIVE ObjectsOver(_, _)
ObjectsOver(keys, values) ==
    IF keys = <<>> THEN {<<>>}
    ELSE LET rest == ObjectsOver(Tail(keys), values)
         IN  rest \cup {<< <<Head(keys), v>> >> \o e : v \in values, e \in rest}

\* border tokens: objects with any of color, width, style, and values that are
\* no objects
BorderDocs ==
    {ValueDoc(Str(S_border), Obj(e)) : e \in ObjectsOver(<<S_color, S_width, S_style>>, FieldValues)}
        \cup {ValueDoc(Str(S_border), v) : v \in {Null, Str(<<"s", "o", "l", "i", "d">>), Arr(<<>>)}}

V_red == Str(<<"#", "f", "f", "0", "0", "0", "0">>)

\* a token of $type T that refers to a token of $type U (or of none): T and U
\* the same or not, the value valid for T, for U, for both or for neither
OwnTypeRefDocs ==
    {Obj(<< <<K_t, Token(T, Ref(K_u))>>, <<K_u, Token(U, v)>> >>) :
        T \in {Str(S_color), Str(S_dimension), Str(S_number), Str(S_fontFamily),
               Str(<<"f", "o", "o">>)},
        U \in {Undefined, Str(S_color), Str(S_dimension), Str(S_number)},
        v \in {V_8px, V_8em, V_red, Num(5000)}}

K_c == <<"c">>

\* an object with the given keys, each holding x
AllFields(keys, x) == Obj([i \in 1..Len(keys) |-> <<keys[i], x>>])

\* composite values, complete, whose fields hold the string x: a border, a
\* shadow, an array of one shadow, a transition, a typography and a gradient of
\* one stop
CompositeTokens(x) ==
    {Token(Str(S_border), AllFields(<<S_color, S_width, S_style>>, x)),
     Token(Str(S_shadow), AllFields(<<S_offsetX, S_offsetY, S_blur, S_spread, S_color>>, x)),
     Token(Str(S_shadow),
           Arr(<<AllFields(<<S_offsetX, S_offsetY, S_blur, S_spread, S_color>>, x)>>)),
     Token(Str(S_transition), AllFields(<<S_duration, S_delay, S_timingFunction>>, x)),
     Token(Str(S_typography),
           AllFields(<<S_fontFamily, S_fontSize, S_fontWeight, S_letterSpacing, S_lineHeight>>, x)),
     Token(Str(S_gradient), Arr(<<Obj(<< <<S_color, x>>, <<S_position, Num(0)>> >>)>>))}

\* a composite token whose fields hold a plain string or a reference: to a
\* token, to itself, to a path that does not exist, to a token that refers to
\* itself; beside it a color token or a token that refers to itself
NestedRefDocs ==
    {Obj(<< <<K_t, t>>, <<K_u, Token(Str(S_color), V_red)>> >>) :
        t \in UNION {CompositeTokens(x) :
                        x \in {Str(<<"s", "o", "l", "i", "d">>), Ref(K_u), Ref(K_t),
                               Ref(<<"z">>)}}}
        \cup {Obj(<< <<K_t, t>>, <<K_c, Token(Str(S_color), Ref(K_c))>> >>) :
                 t \in CompositeTokens(Ref(K_c))}

ValueInputs ==
    {Call("validateTokens", Text(FALSE, JSONBody(d))) :
        d \in UnknownTypeDocs \cup ColorLengthDocs \cup ColorRangeDocs \cup FontFamilyDocs
                 \cup BorderDocs \cup OwnTypeRefDocs \cup NestedRefDocs}
        \cup {Call("validateTokensObject", JSONparse(d)) :
                 d \in UnknownTypeDocs \cup FontFamilyDocs \cup OwnTypeRefDocs}

InitValues == InitWith(ValueInputs)

\* one call, of a document with one value
SpecValues == InitValues /\ [][Next]_vars

-----------------------------------------------------------------------------
(* Properties *)

Done == pc = "done"

\* the call built the registry and walked the tree
Walked == Done /\ registry # Undefined

RegRecords == {registry.at[i] : i \in 1..Len(registry.keys)}

\* the number of paths in the registry
RegSize == Len(registry.keys)

\* the path a reference token refers to
Target(r) == extractReferencePath(r.value.s)

\* how the chain of references that starts at path p ends: at a path that is no
\* key of the registry ("missing"), at a token with a concrete value ("token"),
\* or never ("cycle": after as many hops as the registry has paths, a path has
\* been met twice); `hops` counts the references followed
RECURSIVE ChainEnd(_, _, _)
ChainEnd(p, fuel, hops) ==
    IF ~MapHas(registry, p) THEN [end |-> "missing", path |-> p, hops |-> hops]
    ELSE IF ~isReference(MapGet(registry, p).value)
    THEN [end |-> "token", path |-> p, hops |-> hops]
    ELSE IF fuel = 0 THEN [end |-> "cycle", path |-> p, hops |-> hops]
    ELSE ChainEnd(Target(MapGet(registry, p)), fuel - 1, hops + 1)

ChainOf(r) == ChainEnd(Target(r), RegSize, 1)

\* whether the chain that starts at path p passes through path q
RECURSIVE Passes(_, _, _)
Passes(p, q, fuel) ==
    \/ p = q
    \/ /\ fuel > 0
       /\ MapHas(registry, p)
       /\ isReference(MapGet(registry, p).value)
       /\ Passes(Target(MapGet(registry, p)), q, fuel - 1)

RefRecords == {r \in RegRecords : isReference(r.value)}

CircularText ==
    "Circular reference detected: ${Array.from(visitedPaths).join(' → ')} → ${referencePath} at ${path}"

NonExistentText == "Reference \"{${referencePath}}\" points to non-existent token at ${path}"

NoTypeText == "Token at ${path} has no determinable type (no $type property or group type)"

NamingText ==
    "Token name \"${key}\" at ${currentPath} contains invalid characters ({, }, ., or \")"

MissingValueText == "Token at ${path} is missing $value"

\* the positions of the errors pushed at the node with path p
ErrorsAt(p) == {i \in 1..Len(errors) : producedAt.errors[i].path = p}

WarningsAt(p) == {i \in 1..Len(warnings) : producedAt.warnings[i].path = p}

\* C1: when the chain of references that starts at some token's $value revisits
\* a path (a cycle of any length, a token that refers to itself, a token outside
\* the cycle whose chain leads into it), the result is invalid and its errors
\* hold a "Circular reference" message; one is reported at each such token.
C1_CycleReported ==
    Walked =>
        \A r \in RefRecords :
            ChainOf(r).end = "cycle" =>
                /\ result.valid = FALSE
                /\ \E i \in 1..Len(result.errors) : result.errors[i].text = CircularText
                /\ \E i \in ErrorsAt(r.path) : errors[i].text = CircularText

\* a token outside a cycle whose chain leads into it, reported as circular
C1_Witness ==
    /\ Walked
    /\ \E r \in RefRecords :
           /\ ChainOf(r).end = "cycle"
           /\ ~Passes(Target(r), r.path, RegSize)
           /\ \E i \in ErrorsAt(r.path) : result.errors[i].text = CircularText

\* the own $type of the token a registry record was made from
OwnType(r) == Get(r.token, P_type)

\* C2: a token without own $type whose $value is no reference, under a group
\* that carries $type, gets no "has no determinable type" error.
C2_GroupTypeApplied ==
    Walked =>
        \A r \in RegRecords :
            (OwnType(r) = Undefined /\ ~isReference(r.value) /\ Truthy(r.type)) =>
                \A i \in ErrorsAt(r.path) : errors[i].text # NoTypeText

\* whether every reference token on the chain that starts at path p declares no
\* $type of its own
RECURSIVE TypelessLinks(_, _)
TypelessLinks(p, fuel) ==
    \/ ~MapHas(registry, p)
    \/ ~isReference(MapGet(registry, p).value)
    \/ /\ OwnType(MapGet(registry, p)) = Undefined
       /\ fuel > 0
       /\ TypelessLinks(Target(MapGet(registry, p)), fuel - 1)

\* the messages of msgs pushed at the node with path p, in their order, the
\* naming error of its key left out
RECURSIVE ValueMessagesFrom(_, _, _, _)
ValueMessagesFrom(msgs, tags, p, i) ==
    IF i > Len(msgs) THEN <<>>
    ELSE (IF tags[i].path = p /\ msgs[i].text # NamingText THEN <<msgs[i]>> ELSE <<>>)
             \o ValueMessagesFrom(msgs, tags, p, i + 1)

\* a reference token without $type whose chain leads, through reference tokens
\* without $type, to a token that has a concrete value and a type
InheritsThroughChain(r) ==
    /\ OwnType(r) = Undefined
    /\ ChainOf(r).end = "token"
    /\ TypelessLinks(Target(r), RegSize)
    /\ Truthy(MapGet(registry, ChainOf(r).path).type)

\* C3: a reference token without $type, whose chain of references through
\* tokens without $type ends at a token tn with a concrete value and a type, is
\* validated with tn's value under tn's type: the errors and warnings pushed for
\* it are exactly those of tn's value under tn's type, at its own path, and none
\* says "has no determinable type".
C3_ChainInherits ==
    Walked =>
        \A r \in RefRecords :
            InheritsThroughChain(r) =>
                LET tn == MapGet(registry, ChainOf(r).path)
                    expected == dispatch(tn.type, tn.value, r.path, NewAcc)
                IN  /\ ValueMessagesFrom(result.errors, producedAt.errors, r.path, 1)
                           = expected.errors
                    /\ ValueMessagesFrom(result.warnings, producedAt.warnings, r.path, 1)
                           = expected.warnings
                    /\ \A i \in ErrorsAt(r.path) : errors[i].text # NoTypeText

\* a chain of two references or more whose last token has an invalid value: the
\* first token of the chain reports that value at its own path
C3_Witness ==
    /\ Walked
    /\ \E r \in RefRecords :
           /\ InheritsThroughChain(r)
           /\ ChainOf(r).hops >= 2
           /\ ErrorsAt(r.path) # {}
           /\ \A i \in ErrorsAt(r.path) :
                  /\ result.errors[i].text # NoTypeText
                  /\ result.errors[i].args = <<Str(r.path)>>

\* C4: when the chain of references that starts at a token's $value reaches a
\* path that is no key of the registry, after any number of hops, the path of a
\* group included, an error "Reference "{path}" points to non-existent token"
\* that names this path is pushed at the token, and the result is invalid.
C4_MissingReported ==
    Walked =>
        \A r \in RefRecords :
            ChainOf(r).end = "missing" =>
                /\ result.valid = FALSE
                /\ \E i \in ErrorsAt(r.path) :
                       result.errors[i] =
                           Msg(NonExistentText, <<Str(ChainOf(r).path), Str(r.path)>>)

\* whether path p, a single key, is the path of a group of the document
IsGroupKey(p) ==
    \E i \in 1..Len(tokens.ents) :
        /\ tokens.ents[i][1] = p
        /\ tokens.ents[i][2].k = "object"
        /\ ~In(P_value, tokens.ents[i][2])

\* a token whose chain reaches, after a hop through another reference token, the
\* path of a group, reported as a reference to a non-existent token
C4_Witness ==
    /\ Walked
    /\ \E r \in RefRecords :
           /\ ChainOf(r).end = "missing"
           /\ ChainOf(r).hops >= 2
           /\ IsGroupKey(ChainOf(r).path)
           /\ \E i \in ErrorsAt(r.path) : result.errors[i].text = NonExistentText

\* C5: in the result of either entry point valid is true exactly when errors
\* is empty, whatever the warnings.
C5_ValidIffNoErrors ==
    Done => (result.valid <=> result.errors = <<>>)

\* a valid result that carries warnings
C5_Witness ==
    /\ Walked
    /\ result.valid = TRUE
    /\ result.warnings # <<>>

\* C6: the result of either entry point, for every input, carries the four
\* fields valid, errors, warnings and tokenCount.
C6_CompleteResult ==
    Done => DOMAIN result = {"valid", "errors", "warnings", "tokenCount"}

\* the functions a call went through
StepsMade == {steps[i] : i \in 1..Len(steps)}

\* the call returned before building a registry or walking the tree, with one
\* error
ReturnedEarly ==
    /\ registry = Undefined
    /\ StepsMade \cap {"buildTokenRegistry", "validateToken", "countTokens"} = {}
    /\ result.valid = FALSE
    /\ Len(result.errors) = 1

\* the number of non-metadata keys, from position i of node on and in the groups
\* below them, that hold one of the characters { } . "
RECURSIVE IllegalKeysFrom(_, _)
IllegalKeysFrom(node, i) ==
    IF i > Len(node.ents) THEN 0
    ELSE LET key == node.ents[i][1]
             value == node.ents[i][2]
         IN  IF key # <<>> /\ key[1] = "$" THEN IllegalKeysFrom(node, i + 1)
             ELSE (IF \E j \in 1..Len(key) : key[j] \in {"{", "}", ".", "\""} THEN 1 ELSE 0)
                  + (IF value.k = "object" /\ ~In(P_value, value)
                     THEN IllegalKeysFrom(value, 1) ELSE 0)
                  + IllegalKeysFrom(node, i + 1)

Children(node) ==
    {node.ents[i][2] : i \in {j \in 1..Len(node.ents) :
                                 /\ ~startsWithDollar(node.ents[j][1])
                                 /\ node.ents[j][2].k = "object"}}

\* whether a node with $value is reachable through non-metadata keys
RECURSIVE HasToken(_)
HasToken(node) == \E c \in Children(node) : In(P_value, c) \/ HasToken(c)

\* a node with $type, without $value and without non-metadata keys
IsMalformed(node) ==
    /\ In(P_type, node)
    /\ ~In(P_value, node)
    /\ \A i \in 1..Len(node.ents) : startsWithDollar(node.ents[i][1])

RECURSIVE HasMalformed(_)
HasMalformed(node) == \E c \in Children(node) : IsMalformed(c) \/ HasMalformed(c)

\* whether a non-metadata key reachable through non-metadata keys holds one of
\* the characters { } . "
RECURSIVE HasIllegalKey(_)
HasIllegalKey(node) ==
    \/ \E i \in 1..Len(node.ents) :
           /\ ~startsWithDollar(node.ents[i][1])
           /\ \E j \in 1..Len(node.ents[i][1]) :
                  node.ents[i][1][j] \in {"{", "}", ".", "\""}
    \/ \E c \in Children(node) : HasIllegalKey(c)

\* C8 as stated: a document without tokens has tokenCount 0 and is valid.
C8_NoTokensValid ==
    (Walked /\ ~HasToken(tokens)) =>
        /\ result.tokenCount = 0
        /\ result.valid = TRUE

\* C8, amended: a document without tokens has tokenCount 0, and is valid
\* exactly when it has no node with $type but neither $value nor children and
\* no key with an illegal character.
C8_NoTokensCountZero ==
    (Walked /\ ~HasToken(tokens)) =>
        /\ result.tokenCount = 0
        /\ result.valid <=> (~HasMalformed(tokens) /\ ~HasIllegalKey(tokens))

\* a document without tokens, with a node that has $type only: counted 0,
\* invalid
C8_Witness ==
    /\ Walked
    /\ ~HasToken(tokens)
    /\ HasMalformed(tokens)
    /\ ~HasIllegalKey(tokens)
    /\ result.tokenCount = 0
    /\ result.valid = FALSE

DeclaredAt(node, key) == CHOOSE i \in 1..Len(node.ents) : node.ents[i][1] = key

\* whether the node reached by the keys ks1 is the node reached by ks2 or is
\* visited before it by the depth-first walk of node that takes children in
\* the order of declaration
RECURSIVE VisitedBefore(_, _, _)
VisitedBefore(node, ks1, ks2) ==
    IF ks1 = <<>> THEN TRUE
    ELSE IF ks2 = <<>> THEN FALSE
    ELSE IF ks1[1] = ks2[1] THEN VisitedBefore(Get(node, ks1[1]), Tail(ks1), Tail(ks2))
    ELSE DeclaredAt(node, ks1[1]) < DeclaredAt(node, ks2[1])

InTraversalOrder(tags) ==
    \A i, j \in 1..Len(tags) : i < j => VisitedBefore(tokens, tags[i].keys, tags[j].keys)

\* C10: errors and warnings are in the order of the depth-first walk that takes
\* children in declaration order: no message of a key follows a message of a key
\* visited after it, and the naming error of a key precedes the other messages
\* of that key.
C10_TraversalOrder ==
    Walked =>
        /\ InTraversalOrder(producedAt.errors)
        /\ InTraversalOrder(producedAt.warnings)
        /\ \A i, j \in 1..Len(result.errors) :
               (i < j /\ producedAt.errors[i].keys = producedAt.errors[j].keys)
                   => result.errors[j].text # NamingText

\* the JSON text of a value, given by what it writes down: the members of an
\* object in the order of its keys (JSON.stringify)
RECURSIVE JSONtextOf(_)
JSONtextOf(v) ==
    CASE v.k = "object" ->
             Obj([i \in 1..Len(ObjectEntries(v)) |->
                     <<ObjectEntries(v)[i][1], JSONtextOf(ObjectEntries(v)[i][2])>>])
      [] v.k = "array" -> Arr([i \in 1..Len(v.items) |-> JSONtextOf(v.items[i])])
      [] OTHER -> v

C12_EmptyReferenceFails ==
    Walked =>
        \A r \in RegRecords :
            r.value = V_emptyRef =>
                /\ result.valid = FALSE
                /\ ErrorsAt(r.path) # {}

\* the two tokens of the document refer to each other
TwoTokenCycle ==
    /\ Walked
    /\ RegSize = 2
    /\ \A r \in RegRecords :
           /\ isReference(r.value)
           /\ Target(r) # r.path
           /\ MapHas(registry, Target(r))

Arrow == <<" ", "→", " ">>

RECURSIVE PathsUntilRevisit(_, _)
PathsUntilRevisit(p, seen) ==
    IF \E i \in 1..Len(seen) : seen[i] = p THEN [visited |-> seen, again |-> p]
    ELSE PathsUntilRevisit(Target(MapGet(registry, p)), Append(seen, p))

\* C14: the cycle error of a token lists every path the resolution visited, in
\* the order visited and joined by " → ", then the path met again; the list
\* starts with the path the token refers to.
C14_CycleMessage ==
    Walked =>
        \A r \in RefRecords :
            ChainOf(r).end = "cycle" =>
                LET walk == PathsUntilRevisit(Target(r), <<>>)
                IN  /\ walk.visited[1] = Target(r)
                    /\ \A i \in ErrorsAt(r.path) :
                           result.errors[i].text = CircularText =>
                               result.errors[i].args =
                                   <<Str(join(walk.visited, Arrow)), Str(walk.again), Str(r.path)>>
                    /\ \E i \in ErrorsAt(r.path) : result.errors[i].text = CircularText

\* a token outside the cycle: the list has two paths or more, does not hold the
\* token's own path, and the path met again is not the first of the list
C14_Witness ==
    /\ Walked
    /\ \E r \in RefRecords :
           /\ ChainOf(r).end = "cycle"
           /\ LET walk == PathsUntilRevisit(Target(r), <<>>)
              IN  /\ Len(walk.visited) >= 2
                  /\ \A i \in 1..Len(walk.visited) : walk.visited[i] # r.path
                  /\ walk.again # walk.visited[1]
                  /\ \E i \in ErrorsAt(r.path) :
                         result.errors[i].args =
                             <<Str(join(walk.visited, Arrow)), Str(walk.again), Str(r.path)>>

\* line 662: the error of a node without $value, as validateToken words it
MalformedText == "Token at ${currentPath} is missing $value"

\* the positions of the non-metadata keys of node
PlainKeys(node) == {i \in 1..Len(node.ents) : ~startsWithDollar(node.ents[i][1])}

\* whether a walk that takes tokens and malformed nodes for leaves goes into v
IsGroup(v) == v.k = "object" /\ ~In(P_value, v) /\ ~IsMalformed(v)

\* the non-metadata keys of the document at every depth, the groups gone into:
\* for each the keys that lead to it from the root, its path, the key itself
\* and the node under it
RECURSIVE KeysBelow(_, _, _)
KeysBelow(node, path, at) ==
    UNION {LET key == node.ents[i][1]
               value == node.ents[i][2]
               p == IF path = <<>> THEN key ELSE path \o <<".">> \o key
           IN  {[keys |-> Append(at, key), path |-> p, key |-> key, node |-> value]}
                   \cup (IF IsGroup(value) THEN KeysBelow(value, p, Append(at, key)) ELSE {})
           : i \in PlainKeys(node)}

DocumentKeys == KeysBelow(tokens, <<>>, <<>>)

\* the messages of msgs pushed during the loop iteration of the key reached by
\* the keys ks, in their order, the naming error left out
RECURSIVE ValueMessagesOf(_, _, _, _)
ValueMessagesOf(msgs, tags, ks, i) ==
    IF i > Len(msgs) THEN <<>>
    ELSE (IF tags[i].keys = ks /\ msgs[i].text # NamingText THEN <<msgs[i]>> ELSE <<>>)
             \o ValueMessagesOf(msgs, tags, ks, i + 1)

\* C15: for a node without $value, with $type and without non-metadata
\* children, the walk pushes exactly the error "Token at <path> is missing
\* $value" and does not go into it; the node is no key of the registry, and
\* tokenCount counts the nodes with $value only.
C15_MalformedNode ==
    Walked =>
        /\ \A e \in DocumentKeys :
               (e.node.k = "object" /\ IsMalformed(e.node)) =>
                   /\ ValueMessagesOf(result.errors, producedAt.errors, e.keys, 1)
                          = <<Msg(MalformedText, <<Str(e.path)>>)>>
                   /\ ValueMessagesOf(result.warnings, producedAt.warnings, e.keys, 1) = <<>>
                   /\ ~MapHas(registry, e.path)
        /\ result.tokenCount
               = Cardinality({e \in DocumentKeys : e.node.k = "object" /\ In(P_value, e.node)})

\* a malformed node below a group, beside a token that is counted
C15_Witness ==
    /\ Walked
    /\ result.tokenCount = 1
    /\ \E e \in DocumentKeys :
           /\ e.node.k = "object"
           /\ IsMalformed(e.node)
           /\ Len(e.keys) >= 2
           /\ \E i \in 1..Len(result.errors) :
                  result.errors[i] = Msg(MalformedText, <<Str(e.path)>>)

\* whether key holds one of the characters { } . "
IsIllegalKey(key) == \E j \in 1..Len(key) : key[j] \in {"{", "}", ".", "\""}

\* the errors and warnings the walk owes to the node under a key: those of the
\* token's value, the error of a malformed node, none for a group or a value
\* that is no object
MessagesOwed(e) ==
    IF e.node.k # "object" THEN NewAcc
    ELSE IF In(P_value, e.node) THEN validateTokenValue(e.node, e.path, NewAcc, registry)
    ELSE IF IsMalformed(e.node)
    THEN pushError(NewAcc, Msg(MalformedText, <<Str(e.path)>>))
    ELSE NewAcc

\* C16: every non-metadata key at any depth that holds { } . or " gets one
\* naming error, pushed before the messages of its node, and every other key
\* gets none; the node under the key is validated whatever the key: a token's
\* value is dispatched, a group is gone into.
C16_NamingRule ==
    Walked =>
        \A e \in DocumentKeys :
            LET named == {i \in 1..Len(result.errors) :
                             /\ producedAt.errors[i].keys = e.keys
                             /\ result.errors[i].text = NamingText}
            IN  /\ Cardinality(named) = IF IsIllegalKey(e.key) THEN 1 ELSE 0
                /\ \A i \in named : result.errors[i].args = <<Str(e.key), Str(e.path)>>
                /\ ValueMessagesOf(result.errors, producedAt.errors, e.keys, 1)
                       = MessagesOwed(e).errors
                /\ ValueMessagesOf(result.warnings, producedAt.warnings, e.keys, 1)
                       = MessagesOwed(e).warnings

\* a group under an illegal key, and in it a token under an illegal key whose
\* value has an error: two naming errors and the error of the value
C16_Witness ==
    /\ Walked
    /\ \E e, f \in DocumentKeys :
           /\ IsIllegalKey(e.key)
           /\ IsGroup(e.node)
           /\ IsIllegalKey(f.key)
           /\ Len(f.keys) = 2
           /\ f.keys[1] = e.key
           /\ In(P_value, f.node)
           /\ ValueMessagesOf(result.errors, producedAt.errors, f.keys, 1) # <<>>
           /\ \E i \in 1..Len(result.errors) :
                  /\ result.errors[i].text = NamingText
                  /\ result.errors[i].args = <<Str(f.key), Str(f.path)>>

UnknownTypeText == "Unknown $type \"${type}\" at ${path}"

\* the type a token is validated under by its own declaration or by the token
\* its chain of references ends at: its own $type when it declares one, else the
\* $type of the token with a concrete value its chain leads to
EffectiveType(r) ==
    IF OwnType(r) # Undefined THEN OwnType(r)
    ELSE IF isReference(r.value) /\ ChainOf(r).end = "token"
    THEN OwnType(MapGet(registry, ChainOf(r).path))
    ELSE Undefined

\* a token whose effective type is a string that is none of the thirteen types,
\* and whose value is concrete or a reference that resolves
HasUnknownType(r) ==
    /\ typeof(EffectiveType(r)) = "string"
    /\ \A i \in 1..Len(VALID_TOKEN_TYPES) : EffectiveType(r) # Str(VALID_TOKEN_TYPES[i])
    /\ isReference(r.value) => ChainOf(r).end = "token"

\* C17: a token whose effective type is a string outside the thirteen types has
\* exactly one warning, 'Unknown $type "<type>" at <path>', and no error (its
\* value is not validated); a document of such tokens only is valid.
C17_UnknownTypeWarns ==
    Walked =>
        /\ \A r \in RegRecords :
               HasUnknownType(r) =>
                   /\ ErrorsAt(r.path) = {}
                   /\ \E i \in 1..Len(warnings) :
                          /\ WarningsAt(r.path) = {i}
                          /\ warnings[i] = Msg(UnknownTypeText, <<EffectiveType(r), Str(r.path)>>)
        /\ (\A r \in RegRecords : HasUnknownType(r)) => result.valid = TRUE

\* the same for the types that are not the empty string
C17_NonEmptyUnknownTypeWarns ==
    Walked =>
        \A r \in RegRecords :
            (HasUnknownType(r) /\ EffectiveType(r) # Str(<<>>)) =>
                /\ ErrorsAt(r.path) = {}
                /\ \E i \in 1..Len(warnings) :
                       /\ WarningsAt(r.path) = {i}
                       /\ warnings[i] = Msg(UnknownTypeText, <<EffectiveType(r), Str(r.path)>>)
                /\ result.valid = (Len(result.errors) = 0)

\* a token of $type "" with a concrete value has the "no determinable type" error
C17_EmptyTypeError ==
    /\ Walked
    /\ \E r \in RegRecords :
           /\ OwnType(r) = Str(<<>>)
           /\ HasUnknownType(r)
           /\ \E i \in ErrorsAt(r.path) : errors[i].text = NoTypeText

ComponentsLengthText ==
    "Color object at ${path} must have components array with exactly ${colorSpaceInfo.components} values"

\* the records of the color tokens whose value is an object with one of the
\* supported color spaces and an array of components
ColorObjectRecords ==
    {r \in RegRecords :
        /\ OwnType(r) = Str(S_color)
        /\ r.value.k = "object"
        /\ \E i \in 1..Len(COLOR_SPACES) : Get(r.value, S_colorSpace) = Str(COLOR_SPACES[i].name)
        /\ isArray(Get(r.value, S_components))}

\* the entry of COLOR_SPACES a color object names
SpaceOf(r) ==
    COLOR_SPACES[CHOOSE i \in 1..Len(COLOR_SPACES) :
                     Get(r.value, S_colorSpace) = Str(COLOR_SPACES[i].name)]

ComponentsOf(r) == Get(r.value, S_components).items

\* C18: a color token in object form, of a supported color space with N
\* components, whose components array has another length than N, gets the error
\* "... must have components array with exactly N values" and no error about a
\* component: that error is the only error of the token.
C18_LengthErrorOnly ==
    Walked =>
        \A r \in ColorObjectRecords :
            Len(ComponentsOf(r)) # SpaceOf(r).components =>
                \E i \in 1..Len(errors) :
                    /\ ErrorsAt(r.path) = {i}
                    /\ errors[i] = Msg(ComponentsLengthText,
                                       <<Str(r.path), Str(NatToString(SpaceOf(r).components))>>)

\* components that are too few, one of them no number and one out of range, and
\* an alpha out of range: the length error only
C18_Witness ==
    /\ Walked
    /\ \E r \in ColorObjectRecords :
           /\ Len(ComponentsOf(r)) = 2
           /\ ComponentsOf(r)[1] = Str(<<"x">>)
           /\ ComponentsOf(r)[2] = Num(400 * 1000)
           /\ Get(r.value, S_alpha) = Num(2 * 1000)
           /\ \E i \in ErrorsAt(r.path) : errors[i].text = ComponentsLengthText

\* components that are too many
C18_WitnessLong ==
    /\ Walked
    /\ \E r \in ColorObjectRecords :
           /\ Len(ComponentsOf(r)) > SpaceOf(r).components
           /\ \E i \in ErrorsAt(r.path) : errors[i].text = ComponentsLengthText

HueText == "Color hue component at ${path}.components[${idx}] must be >= 0 and < 360"

BetweenText == "Color component at ${path}.components[${idx}] must be between ${min} and ${max}"

AtLeastText == "Color component at ${path}.components[${idx}] must be >= ${min}"

\* whether component idx (from 0) of the color space named `name` is its hue
IsHue(name, idx) ==
    \/ name \in {<<"h", "s", "l">>, <<"h", "w", "b">>} /\ idx = 0
    \/ name \in {<<"l", "c", "h">>, <<"o", "k", "l", "c", "h">>} /\ idx = 2

\* the range errors owed to the numeric component idx of the color object of r:
\* the hue error outside [0, 360), the "between" error outside [min, max] when
\* both ends are finite, the ">=" error below min when only min is finite
RangeErrorsOwed(r, idx) ==
    LET h == ComponentsOf(r)[idx + 1].n
        min == SpaceOf(r).ranges[idx + 1][1]
        max == SpaceOf(r).ranges[idx + 1][2]
        where == <<Str(r.path), Str(NatToString(idx))>>
    IN  IF IsHue(SpaceOf(r).name, idx)
        THEN IF 0 <= h /\ h < 360 * 1000 THEN {} ELSE {Msg(HueText, where)}
        ELSE IF "n" \in DOMAIN min /\ "n" \in DOMAIN max
        THEN IF min.n <= h /\ h <= max.n THEN {} ELSE {Msg(BetweenText, where \o <<min, max>>)}
        ELSE IF "n" \in DOMAIN min
        THEN IF min.n <= h THEN {} ELSE {Msg(AtLeastText, where \o <<min>>)}
        ELSE {}

\* the range errors pushed at the token of r for its component idx
RangeErrorsAt(r, idx) ==
    {errors[i] : i \in {j \in ErrorsAt(r.path) :
                           /\ errors[j].text \in {HueText, BetweenText, AtLeastText}
                           /\ errors[j].args[2] = Str(NatToString(idx))}}

\* the color objects whose components are as many as their space has
FullColorRecords == {r \in ColorObjectRecords : Len(ComponentsOf(r)) = SpaceOf(r).components}

\* C19: a numeric hue (component 0 of hsl and hwb, component 2 of lch and
\* oklch) is accepted exactly when 0 <= h < 360; every other component with a
\* finite min and max is accepted exactly within [min, max], a component with
\* a finite min only exactly from min on, and a component without bounds always.
C19_ComponentRanges ==
    Walked =>
        \A r \in FullColorRecords :
            \A idx \in 0..(Len(ComponentsOf(r)) - 1) :
                typeof(ComponentsOf(r)[idx + 1]) = "number" =>
                    RangeErrorsAt(r, idx) = RangeErrorsOwed(r, idx)

\* a hue of exactly 360 in lch, whose hue is component 2: the hue error
C19_Witness ==
    /\ Walked
    /\ \E r \in FullColorRecords :
           /\ SpaceOf(r).name = <<"l", "c", "h">>
           /\ ComponentsOf(r)[3] = Num(360 * 1000)
           /\ RangeErrorsAt(r, 2) = {Msg(HueText, <<Str(r.path), Str(<<"2">>)>>)}

\* a hue of 359.999 in hsl: no error
C19_WitnessBelow360 ==
    /\ Walked
    /\ \E r \in FullColorRecords :
           /\ SpaceOf(r).name = <<"h", "s", "l">>
           /\ ComponentsOf(r)[1] = Num(359999)
           /\ ErrorsAt(r.path) = {}

\* a chroma of a million in oklch, which has a lower bound only: no error; and
\* below its lower bound the ">=" error
C19_WitnessLowerBound ==
    /\ Walked
    /\ \E r \in FullColorRecords :
           /\ SpaceOf(r).name = <<"o", "k", "l", "c", "h">>
           /\ \/ ComponentsOf(r)[2] = Num(1000000 * 1000) /\ ErrorsAt(r.path) = {}
              \/ ComponentsOf(r)[2] = Num(-1) /\ \E i \in ErrorsAt(r.path) : errors[i].text = AtLeastText

FontFamilyText == "fontFamily at ${path} must be a string or array"

FontFamilyRecords == {r \in RegRecords : OwnType(r) = Str(S_fontFamily)}

\* a string, or an array whose every element is a string
IsFamilyList(v) ==
    \/ typeof(v) = "string"
    \/ isArray(v) /\ \A i \in 1..Len(v.items) : typeof(v.items[i]) = "string"

\* C20: the value of a fontFamily token produces no error exactly when it is a
\* string or an array whose every element is a string; every other value, an
\* array with an element that is no string included, produces a fontFamily error.
C20_FontFamilyStrings ==
    Walked =>
        \A r \in FontFamilyRecords :
            /\ (ErrorsAt(r.path) = {}) <=> IsFamilyList(r.value)
            /\ \A i \in ErrorsAt(r.path) : errors[i].text = FontFamilyText

\* what holds instead: no error exactly when the value is a string or an array
C20_FontFamilyStringOrArray ==
    Walked =>
        \A r \in FontFamilyRecords :
            /\ (ErrorsAt(r.path) = {}) <=> (typeof(r.value) = "string" \/ isArray(r.value))
            /\ \A i \in ErrorsAt(r.path) : errors[i].text = FontFamilyText

\* an array that holds a number and null, without any error
C20_NonStringElementAccepted ==
    /\ Walked
    /\ \E r \in FontFamilyRecords :
           /\ isArray(r.value)
           /\ \E i \in 1..Len(r.value.items) : typeof(r.value.items[i]) = "number"
           /\ ErrorsAt(r.path) = {}
           /\ result.valid = TRUE

BorderFields == {S_color, S_width, S_style}

\* `Border at ${path} must have color property`, and so on
BorderFieldError(f, path) ==
    Msg("Border at ${path} must have " \o
            (CASE f = S_color -> "color" [] f = S_width -> "width" [] f = S_style -> "style")
            \o " property",
        <<Str(path)>>)

\* the border tokens whose value is an object
BorderRecords == {r \in RegRecords : OwnType(r) = Str(S_border) /\ r.value.k = "object"}

\* C21: the border validator checks presence only: each of color, width and
\* style that is absent from the object gives exactly one "must have <field>
\* property" error, a field that is present gives none whatever it holds, and
\* there is no other error; so an object with all three has no error.
C21_BorderPresenceOnly ==
    Walked =>
        \A r \in BorderRecords :
            /\ \A f \in BorderFields :
                   Cardinality({i \in ErrorsAt(r.path) : errors[i] = BorderFieldError(f, r.path)})
                       = IF In(f, r.value) THEN 0 ELSE 1
            /\ \A i \in ErrorsAt(r.path) : \E f \in BorderFields : errors[i] = BorderFieldError(f, r.path)

\* what holds instead: a field gives its error exactly when it is absent or
\* holds a falsy value (undefined, null, false, 0, "")
C21_BorderTruthyOnly ==
    Walked =>
        \A r \in BorderRecords :
            /\ \A f \in BorderFields :
                   Cardinality({i \in ErrorsAt(r.path) : errors[i] = BorderFieldError(f, r.path)})
                       = IF Truthy(Get(r.value, f)) THEN 0 ELSE 1
            /\ \A i \in ErrorsAt(r.path) : \E f \in BorderFields : errors[i] = BorderFieldError(f, r.path)

\* a border with color, style and a width of 0 that has the width error
C21_ZeroWidthRejected ==
    /\ Walked
    /\ \E r \in BorderRecords :
           /\ Get(r.value, S_width) = Num(0)
           /\ Truthy(Get(r.value, S_color))
           /\ Truthy(Get(r.value, S_style))
           /\ {errors[i] : i \in ErrorsAt(r.path)} = {BorderFieldError(S_width, r.path)}
           /\ result.valid = FALSE

\* the document the call was given: the argument of validateTokensObject, what
\* JSON.parse made of the argument of validateTokens
GivenDocument ==
    IF input.fn = "validateTokensObject" THEN input.arg
    ELSE JSONparseText(input.arg).returns

Resolving == pc = "resolving"

Returned == pc = "resolved"

CircularErrorText ==
    "Circular reference detected: ${Array.from(visitedPaths).join(' → ')} → ${referencePath}"

NonExistentErrorText == "Reference \"{${referencePath}}\" points to non-existent token"

\* what holds of a call of resolveReference while it runs and when it returned
ResolveBounded ==
    (Resolving \/ Returned) =>
        \* visited holds registry paths, none of them twice
        /\ \A i \in 1..Len(curVisitedPaths) : MapHas(registry, curVisitedPaths[i])
        /\ \A i, j \in 1..Len(curVisitedPaths) : curVisitedPaths[i] = curVisitedPaths[j] => i = j
        \* one path for each invocation before the running one
        /\ Resolving => Len(curVisitedPaths) = invocations - 1
        /\ invocations <= RegSize + 1
        /\ Returned =>
               /\ DOMAIN resolution \in {{"value", "type"}, {"error"}}
               /\ "error" \in DOMAIN resolution =>
                      resolution.error.text \in {CircularErrorText, NonExistentErrorText}
               /\ resolution = resolveReference(input.arg, registry, NewSet)

\* the invocation |registry| + 1 of a call returns the cycle error
EndsInCycle ==
    (Returned /\ invocations = RegSize + 1) =>
        /\ "error" \in DOMAIN resolution
        /\ resolution.error = circularMessage(curVisitedPaths, curReferencePath)

\* the invocation |registry| + 1 of a call returns an error: the cycle error
\* for a path that was visited, the non-existent error for a path that is no
\* key of the registry
EndsInError ==
    (Returned /\ invocations = RegSize + 1) =>
        /\ "error" \in DOMAIN resolution
        /\ resolution.error =
               IF MapHas(registry, curReferencePath)
               THEN circularMessage(curVisitedPaths, curReferencePath)
               ELSE nonExistentMessage(curReferencePath)

C23_WitnessCycle ==
    /\ Returned
    /\ invocations = RegSize + 1
    /\ RegSize = MaxRefTokens
    /\ resolution = [error |-> circularMessage(curVisitedPaths, curReferencePath)]

\* the reference tokens that declare a $type (a non-empty string) and whose
\* chain of references ends at a token with a concrete value
TypedRefRecords ==
    {r \in RefRecords :
        /\ typeof(OwnType(r)) = "string"
        /\ OwnType(r) # Str(<<>>)
        /\ ChainOf(r).end = "token"}

\* the messages of msgs pushed at the node with path p, in their order
RECURSIVE MessagesFrom(_, _, _, _)
MessagesFrom(msgs, tags, p, i) ==
    IF i > Len(msgs) THEN <<>>
    ELSE (IF tags[i].path = p THEN <<msgs[i]>> ELSE <<>>) \o MessagesFrom(msgs, tags, p, i + 1)

C24_WitnessError ==
    /\ Walked
    /\ \E r \in TypedRefRecords :
           LET tn == MapGet(registry, ChainOf(r).path)
           IN  /\ OwnType(r) = Str(S_dimension)
               /\ tn.type = Str(S_color)
               /\ tn.value = V_red
               /\ ErrorsAt(r.path) # {}
               /\ ErrorsAt(tn.path) = {}

\* the reference tokens whose resolution fails
FailedRefRecords == {r \in RefRecords : ChainOf(r).end \in {"missing", "cycle"}}

\* the resolver's error for the reference of r, followed by " at <path of r>"
ResolverErrorAt(r) ==
    IF ChainOf(r).end = "missing"
    THEN Msg(NonExistentText, <<Str(ChainOf(r).path), Str(r.path)>>)
    ELSE LET walk == PathsUntilRevisit(Target(r), <<>>)
         IN  Msg(CircularText, <<Str(join(walk.visited, Arrow)), Str(walk.again), Str(r.path)>>)

\* C25: a token whose reference fails to resolve, to a missing target or in a
\* cycle, gets exactly one error, the resolver's message followed by " at" and
\* its path, and no other message for its value: no "no determinable type"
\* error, no unknown-type warning, nothing from a value validator.  The walk
\* goes on: a later token with an invalid value still has its error.
C25_FailureStopsToken ==
    Walked =>
        /\ \A r \in FailedRefRecords :
               /\ ValueMessagesFrom(errors, producedAt.errors, r.path, 1) = <<ResolverErrorAt(r)>>
               /\ ValueMessagesFrom(warnings, producedAt.warnings, r.path, 1) = <<>>
        /\ \A s \in RegRecords :
               (OwnType(s) = Str(S_dimension) /\ s.value = V_8em) => ErrorsAt(s.path) # {}

\* a token of unknown $type whose reference fails, before a token with an
\* invalid dimension that has its error
C25_Witness ==
    /\ Walked
    /\ \E r \in FailedRefRecords, s \in RegRecords :
           /\ OwnType(r) = Str(<<"f", "o", "o">>)
           /\ WarningsAt(r.path) = {}
           /\ OwnType(s) = Str(S_dimension)
           /\ s.value = V_8em
           /\ \E i \in ErrorsAt(r.path), j \in ErrorsAt(s.path) : i < j

\* whether the error at position i was pushed for the reference of r and is
\* the cycle error
IsCycleErrorOf(r, i) == i \in ErrorsAt(r.path) /\ errors[i].text = CircularText

\* C26: every reference is resolved with a visited set of its own: a token has
\* the cycle error exactly when its own chain of references meets a path again,
\* whatever the tokens before it referred to; a token whose chain ends at a
\* token or at a missing path has none, also when another token referred to the
\* same target or was resolved along the same chain before.
C26_VisitedPerReference ==
    Walked =>
        \A r \in RefRecords :
            /\ (\E i \in 1..Len(errors) : IsCycleErrorOf(r, i)) <=> (ChainOf(r).end = "cycle")
            /\ ChainOf(r).end = "missing" =>
                   \E i \in ErrorsAt(r.path) : errors[i].text = NonExistentText

\* the position of path p among the keys of the registry, which is the order
\* in which the walk meets the tokens
RegIndex(p) == CHOOSE i \in 1..Len(registry.keys) : registry.keys[i] = p

\* a token whose reference leads through a reference token that the walk
\* resolved before it: neither has an error
C26_Witness ==
    /\ Walked
    /\ \E r, s \in RefRecords :
           /\ Target(s) = r.path
           /\ RegIndex(r.path) < RegIndex(s.path)
           /\ ChainOf(s).end = "token"
           /\ ErrorsAt(r.path) = {}
           /\ ErrorsAt(s.path) = {}

\* two tokens that refer to the same token: neither has an error
C26_WitnessSameTarget ==
    /\ Walked
    /\ \E r, s \in RefRecords :
           /\ r.path # s.path
           /\ Target(r) = Target(s)
           /\ ChainOf(r).end = "token"
           /\ ErrorsAt(r.path) = {}
           /\ ErrorsAt(s.path) = {}

\* the tokens of the document: the nodes with $value under the non-metadata
\* keys, the groups gone into
TokenKeys == {e \in DocumentKeys : e.node.k = "object" /\ In(P_value, e.node)}

\* the messages of one validation of the token under e, by itself
AloneMessages(e) == validateTokenValue(e.node, e.path, NewAcc, registry)

\* the number of elements of a sequence of messages that were pushed for keys
\* of the set es
Attributed(tags, es) ==
    Cardinality({i \in 1..Len(tags) : \E e \in es : tags[i].keys = e.keys})

RECURSIVE TypeAlong(_, _, _)
TypeAlong(node, ks, t) ==
    LET child == Get(node, ks[1])
        own == Get(child, P_type)
        here == IF own # Undefined THEN own ELSE t
    IN  IF Len(ks) = 1 THEN here ELSE TypeAlong(child, Tail(ks), here)

\* the type the registry owes to the token under e; Null when there is none
EffectiveTypeOf(e) == TypeAlong(tokens, e.keys, Null)

\* the entry of DocumentKeys with path p
KeyAt(p) == CHOOSE e \in TokenKeys : e.path = p

C29_OneEntryPerToken ==
    Walked =>
        /\ \A e1, e2 \in TokenKeys : e1.path = e2.path => e1.keys = e2.keys
        /\ RegSize = result.tokenCount
        /\ result.tokenCount = Cardinality(TokenKeys)

\* what holds instead: the registry has one entry per path of a token, and
\* tokenCount is the number of tokens
C29_OneEntryPerPath ==
    Walked =>
        /\ {registry.keys[i] : i \in 1..RegSize} = {e.path : e \in TokenKeys}
        /\ RegSize = Cardinality({e.path : e \in TokenKeys})
        /\ result.tokenCount = Cardinality(TokenKeys)

\* a valid document of two tokens with legal keys whose registry has one entry
C29_SharedPath ==
    /\ Walked
    /\ result.valid = TRUE
    /\ result.tokenCount = 2
    /\ RegSize = 1
    /\ \A e \in DocumentKeys : ~IsIllegalKey(e.key)

CompositeTypes ==
    {Str(S_border), Str(S_shadow), Str(S_transition), Str(S_typography), Str(S_gradient)}

\* whether a reference string lies somewhere inside the value v
RECURSIVE HoldsReference(_)
HoldsReference(v) ==
    CASE v.k = "object" -> \E i \in 1..Len(v.ents) : HoldsReference(v.ents[i][2])
      [] v.k = "array" -> \E i \in 1..Len(v.items) : HoldsReference(v.items[i])
      [] OTHER -> isReference(v)

\* the value v with every reference string inside it replaced by "solid"
RECURSIVE WithoutReferences(_)
WithoutReferences(v) ==
    CASE v.k = "object" ->
             [v EXCEPT !.ents = [i \in 1..Len(v.ents) |->
                                    <<v.ents[i][1], WithoutReferences(v.ents[i][2])>>]]
      [] v.k = "array" ->
             [v EXCEPT !.items = [i \in 1..Len(v.items) |-> WithoutReferences(v.items[i])]]
      [] OTHER -> IF isReference(v) THEN Str(<<"s", "o", "l", "i", "d">>) ELSE v

\* the tokens of a composite type whose value is an object or an array
CompositeRecords ==
    {r \in RegRecords : OwnType(r) \in CompositeTypes /\ r.value.k \in {"object", "array"}}

\* C30: a reference inside a composite value is not resolved: whether it names
\* a token, a path that does not exist or a token in a cycle, the composite
\* token has no reference error, and its errors and warnings are those of the
\* same value with plain strings in place of the references; a complete
\* composite value has no error, and the result is valid if no other token has one.
C30_NestedReferencesIgnored ==
    Walked =>
        \A r \in CompositeRecords :
            LET expected == dispatch(OwnType(r), WithoutReferences(r.value), r.path, NewAcc)
            IN  /\ \A i \in ErrorsAt(r.path) : errors[i].text \notin {CircularText, NonExistentText}
                /\ MessagesFrom(errors, producedAt.errors, r.path, 1) = expected.errors
                /\ MessagesFrom(warnings, producedAt.warnings, r.path, 1) = expected.warnings
                /\ (/\ expected.errors = <<>>
                    /\ \A i \in 1..Len(errors) : producedAt.errors[i].path = r.path) =>
                       result.valid = TRUE

\* a shadow whose fields refer to a path that does not exist, in a valid result
C30_Witness ==
    /\ Walked
    /\ result.valid = TRUE
    /\ \E r \in CompositeRecords :
           /\ OwnType(r) = Str(S_shadow)
           /\ r.value.k = "object"
           /\ Get(r.value, S_color) = Ref(<<"z">>)
           /\ ErrorsAt(r.path) = {}

\* a border whose fields refer to a token in a cycle: the only error of the
\* result is the one of the token in the cycle
C30_WitnessCycle ==
    /\ Walked
    /\ \E r \in CompositeRecords, c \in RefRecords :
           /\ OwnType(r) = Str(S_border)
           /\ Get(r.value, S_color) = Ref(c.path)
           /\ ChainOf(c).end = "cycle"
           /\ ErrorsAt(r.path) = {}
           /\ Len(errors) = 1
           /\ ErrorsAt(c.path) # {}

====
